---- MODULE Spec2Model ----
(***************************************************************************)
(* bean-me-up: reconciliation of local beans against remote ClickUp tasks. *)
(*                                                                         *)
(* Eight state machines share this module:                                 *)
(*   Spec      - one run of the sync command: Syncer.SyncBeans (three      *)
(*               passes of concurrent syncBean workers) over an            *)
(*               ExtensionSyncProvider, followed by the command's Flush.   *)
(*   SpecStore - the two sync state stores (file-backed Store and          *)
(*               ExtensionSyncProvider) driven by the same calls, and      *)
(*               ExtensionSyncProvider.Flush.                              *)
(*   SpecSave  - Store.Save step by step on a file system, with a crash    *)
(*               possible at every step.                                   *)
(*   SpecConc  - concurrent callers of one ExtensionSyncProvider, lock by  *)
(*               lock.                                                     *)
(*   SpecClient- one call of the ClickUp client with its retries.          *)
(*   SpecPure  - the Syncer's pure functions applied to bounded inputs.    *)
(*   SpecCreate- syncBean's CreateTask call through the retrying client.   *)
(*   SpecDeadline - the run's context and the remote calls made under it,  *)
(*               on a clock.                                               *)
(***************************************************************************)
EXTENDS Integers, Sequences, FiniteSets, TLC

(***************************************************************************)
(* Bounds                                                                  *)
(***************************************************************************)
\* Largest number of beans in one run.
MaxBeans == 3
\* Largest number of store calls in one SpecStore behaviour.
MaxOps == 3
\* Largest number of Save calls in one SpecSave behaviour.
MaxSaves == 2

(***************************************************************************)
(* Values                                                                  *)
(***************************************************************************)
\* The empty task ID ("" and a nil *string read alike by every caller).
NoTask == 0
\* A nil *time.Time.
NoTime == 0
\* An empty bean ID (Bean.Parent == "").
NoBean == 0
\* Timestamps count ticks of half a second; time.RFC3339 keeps whole seconds.
TicksPerSecond == 2
\* time.Now() during the run: later than every timestamp of the input, and
\* not on a whole second.
Now == 5

BeanIDs == 1..(MaxBeans + 1)

\* The task a bean is linked to before the run, when it is linked.
OldTask(b) == b

VARIABLES
    \* ---- Syncer (sync.go) ----
    beanList,       \* the input of SyncBeans: a sequence of beans
    opts,           \* SyncOptions
    spaceID,        \* Syncer.spaceID
    beanToTaskID,   \* Syncer.beanToTaskID
    pc,             \* where the sync command is
    wpc,            \* where each bean's worker is
    wres,           \* each worker's local result (syncBean's result)
    results,        \* SyncBeans' results slice
    completed,      \* SyncBeans' completed counter
    runErr,         \* the error the sync command returns
    \* ---- ClickUp (the remote service) ----
    nextTask,       \* the ID the next created task gets
    remoteTasks,    \* tasks created in this run and present remotely
    calls,          \* every remote write call issued
    \* ---- ExtensionSyncProvider (external_sync.go) ----
    provider,       \* [cache, ops]
    flushPc,        \* where Flush is
    flushSetOps,    \* Flush's setOps
    flushRemoveIDs, \* Flush's removeIDs still to remove
    flushErr,       \* Flush's return value
    extData,        \* the beans' extension data as persisted
    batchCalls,     \* SetExtensionDataBatch calls issued
    removeCalls,    \* RemoveExtensionData calls issued
    \* ---- bookkeeping for the properties ----
    cache0,         \* the provider's cache when the run began
    flushed0,       \* the pending operations the last Flush took
    \* ---- Store (syncstate/store.go) ----
    fdata,          \* Store.data.Beans
    nOps,           \* store calls made so far
    disk,           \* the file system: the state file and Save's temp file
    disk0,          \* the state file when the last Save began
    savePc,         \* where Save is
    saveData,       \* Save's marshalled data
    nSaves,         \* Save calls made so far
    \* ---- the other state machines of this module ----
    conc,           \* workers calling one store concurrently
    client,         \* one call of the ClickUp client, with its retries
    pure,           \* the input and the result of a function of sync.go
    timed,          \* the run's context, the clock, and the items' calls
    failed          \* the best-effort remote calls of the run that failed

syncVars == <<beanList, opts, spaceID, beanToTaskID, pc, wpc, wres, results,
              completed, runErr, nextTask, remoteTasks, calls, cache0>>
flushVars == <<flushPc, flushSetOps, flushRemoveIDs, flushErr, extData,
               batchCalls, removeCalls, flushed0>>
storeVars == <<fdata, nOps>>
saveVars == <<disk, disk0, savePc, saveData, nSaves>>
otherVars == <<conc, client, pure, timed>>
vars == <<syncVars, provider, flushVars, storeVars, saveVars, otherVars, failed>>

(***************************************************************************)
(* ExtensionSyncProvider (external_sync.go)                                *)
(***************************************************************************)
\* No cache entry for a bean (the map has no key).
NoEntry == [present |-> FALSE, taskID |-> NoTask, syncedAt |-> NoTime]

EmptyCache == [b \in BeanIDs |-> NoEntry]

\* t.Format(time.RFC3339): the fraction of a second is dropped.
FormatRFC3339(t) == (t \div TicksPerSecond) * TicksPerSecond

\* GetTaskID: nil (NoTask) without an entry or with an empty task ID.
ExtGetTaskID(p, b) ==
    IF ~p.cache[b].present \/ p.cache[b].taskID = NoTask
    THEN NoTask
    ELSE p.cache[b].taskID

\* GetSyncedAt: nil (NoTime) without an entry.
ExtGetSyncedAt(p, b) ==
    IF ~p.cache[b].present THEN NoTime ELSE p.cache[b].syncedAt

\* appendSetOp: a pending set operation carrying the cache entry's data.
appendSetOp(c, ops, b) ==
    Append(ops, [beanID |-> b, set |-> TRUE, taskID |-> c[b].taskID,
                 syncedAt |-> IF c[b].syncedAt # NoTime
                              THEN FormatRFC3339(c[b].syncedAt)
                              ELSE NoTime])

ExtSetTaskID(p, b, t) ==
    LET c == [p.cache EXCEPT ![b].present = TRUE, ![b].taskID = t]
    IN  [cache |-> c, ops |-> appendSetOp(c, p.ops, b)]

\* A SetSyncedAt that records nothing.
ExtSetSyncedAtDropped(p, b, t) == p

\* SetSyncedAt, lines 95-105.
ExtSetSyncedAt(p, b, t) ==
    LET c == [p.cache EXCEPT ![b].present = TRUE, ![b].syncedAt = t]
    IN  [cache |-> c, ops |-> appendSetOp(c, p.ops, b)]

\* A Clear that forgets nothing: the link survives the "not found" answer.
ExtClearKeepsLink(p, b) == p

ExtClear(p, b) ==
    [cache |-> [p.cache EXCEPT ![b] = NoEntry],
     ops |-> Append(p.ops, [beanID |-> b, set |-> FALSE, taskID |-> NoTask,
                            syncedAt |-> NoTime])]

\* Flush's deduplication loop: seen[op.beanID] = i for i = 1..Len(ops); 0 is
\* a bean with no pending operation.
RECURSIVE SeenFrom(_, _, _)
SeenFrom(ops, i, seen) ==
    IF i > Len(ops)
    THEN seen
    ELSE SeenFrom(ops, i + 1, [seen EXCEPT ![ops[i].beanID] = i])

\* A deduplication in which the first pending operation of a bean wins.
SeenFirst(ops) ==
    [b \in BeanIDs |->
        IF \E i \in 1..Len(ops) : ops[i].beanID = b
        THEN CHOOSE i \in 1..Len(ops) :
                /\ ops[i].beanID = b
                /\ \A j \in 1..(i - 1) : ops[j].beanID # b
        ELSE 0]

Seen(ops) == SeenFrom(ops, 1, [b \in BeanIDs |-> 0])

\* The final set operations and remove IDs Flush collects from seen.
CollectSetOps(ops) ==
    {ops[Seen(ops)[b]] : b \in {x \in BeanIDs : Seen(ops)[x] # 0 /\ ops[Seen(ops)[x]].set}}

CollectRemoveIDs(ops) ==
    {b \in BeanIDs : Seen(ops)[b] # 0 /\ ~ops[Seen(ops)[b]].set}

\* Who may call Flush: the sync command after SyncBeans, or any caller of
\* the provider in SpecStore.
FlushCallable == pc \in {"flush", "store"}

\* Flush, lines 117-144: take the pending operations under the lock,
\* return nil when there are none, else deduplicate.
FlushBegin ==
    /\ FlushCallable
    /\ flushPc \in {"idle", "done"}
    /\ pc = "flush" => flushPc = "idle"
    /\ flushed0' = provider.ops
    /\ provider' = [provider EXCEPT !.ops = <<>>]
    /\ flushSetOps' = CollectSetOps(provider.ops)
    /\ flushRemoveIDs' = CollectRemoveIDs(provider.ops)
    /\ flushErr' = FALSE
    /\ batchCalls' = <<>>
    /\ removeCalls' = <<>>
    /\ flushPc' = IF Len(provider.ops) = 0 THEN "done"
                  ELSE IF CollectSetOps(provider.ops) # {} THEN "batch"
                  ELSE "remove"
    /\ UNCHANGED <<extData, syncVars, storeVars, saveVars>>
    /\ UNCHANGED <<otherVars, failed>>

\* The extension data after a successful batch of set operations.
ApplySetOps(data, setOps) ==
    [b \in BeanIDs |->
        IF \E op \in setOps : op.beanID = b
        THEN LET op == CHOOSE o \in setOps : o.beanID = b
             IN  [present |-> TRUE, taskID |-> op.taskID, syncedAt |-> op.syncedAt]
        ELSE data[b]]

\* Flush, lines 146-151: one SetExtensionDataBatch call; an error is returned.
FlushBatch ==
    /\ flushPc = "batch"
    /\ batchCalls' = Append(batchCalls, flushSetOps)
    /\ \E ok \in BOOLEAN :
        IF ok
        THEN /\ extData' = ApplySetOps(extData, flushSetOps)
             /\ flushPc' = IF flushRemoveIDs # {} THEN "remove" ELSE "done"
             /\ flushErr' = FALSE
        ELSE /\ extData' = extData
             /\ flushPc' = "done"
             /\ flushErr' = TRUE
    /\ UNCHANGED <<provider, flushSetOps, flushRemoveIDs, removeCalls, flushed0,
                   syncVars, storeVars, saveVars>>
    /\ UNCHANGED <<otherVars, failed>>

\* Flush, lines 153-158: one RemoveExtensionData call per remove ID, in the
\* order the map iteration gave them; the first error is returned.
FlushRemove ==
    /\ flushPc = "remove"
    /\ \E id \in flushRemoveIDs, ok \in BOOLEAN :
        /\ removeCalls' = Append(removeCalls, id)
        /\ IF ok
           THEN /\ extData' = [extData EXCEPT ![id] = NoEntry]
                /\ flushRemoveIDs' = flushRemoveIDs \ {id}
                /\ flushPc' = IF flushRemoveIDs = {id} THEN "done" ELSE "remove"
                /\ flushErr' = FALSE
           ELSE /\ extData' = extData
                /\ flushRemoveIDs' = flushRemoveIDs
                /\ flushPc' = "done"
                /\ flushErr' = TRUE
    /\ UNCHANGED <<provider, flushSetOps, batchCalls, flushed0,
                   syncVars, storeVars, saveVars>>
    /\ UNCHANGED <<otherVars, failed>>

(***************************************************************************)
(* Syncer (sync.go)                                                        *)
(***************************************************************************)
N == Len(beanList)

RunIDs == {beanList[i].ID : i \in 1..N}

BeanOf(id) == beanList[CHOOSE i \in 1..N : beanList[i].ID = id]

\* An index that follows the bean's ID, not its place in the input.
beanIndexByID(id) == id

\* beanIndex: the last index holding the ID.
beanIndex(id) == CHOOSE i \in 1..N :
    beanList[i].ID = id /\ \A j \in (i + 1)..N : beanList[j].ID # id

\* Layering, lines 99-108: a bean is a parent (a root) when it has no parent
\* or its parent is not being synced.
IsRoot(b) == BeanOf(b).Parent = NoBean \/ BeanOf(b).Parent \notin RunIDs

Roots == {b \in RunIDs : IsRoot(b)}

Dependents == RunIDs \ Roots

\* The zero SyncResult.
EmptyResult == [BeanID |-> NoBean, TaskID |-> NoTask, Action |-> "", Error |-> ""]

\* A staleness check that finds every bean stale.
needsSyncAlways(p, bean) == TRUE

\* needsSync, lines 317-327.
needsSync(p, bean) ==
    IF ExtGetSyncedAt(p, bean.ID) = NoTime THEN TRUE
    ELSE IF bean.UpdatedAt = NoTime THEN FALSE
    ELSE bean.UpdatedAt > ExtGetSyncedAt(p, bean.ID)

Call(kind, b, task, arg, tag) ==
    [kind |-> kind, bean |-> b, task |-> task, arg |-> arg, tag |-> tag]

\* What GetTask returns of a task, as far as syncBean reads it: whether
\* buildUpdateRequest finds a core field changed, whether a configured custom
\* field differs, and the task's tags.
TaskInfos ==
    [changed : BOOLEAN, customFieldDiffers : BOOLEAN, Tags : {{}, {"x"}, {"y"}}]

\* The answers GetTask is let to give for bean b's task: every one in a run
\* of one bean; with more beans, custom fields differ on the second bean's
\* task only and tags are found on the first bean's task only.
TaskInfosFor(b) ==
    IF N = 1 THEN TaskInfos
    ELSE IF N = 2 /\ b = 1
    THEN [changed : BOOLEAN, customFieldDiffers : {FALSE}, Tags : {{"x"}, {"y"}}]
    ELSE IF N = 2
    THEN [changed : BOOLEAN, customFieldDiffers : BOOLEAN, Tags : {{}}]
    ELSE [changed : BOOLEAN, customFieldDiffers : {FALSE}, Tags : {{}}]

Range(seq) == {seq[i] : i \in 1..Len(seq)}

\* syncTags, lines 602-646: the calls it issues for a task.
TagAddCalls(b, taskID, beanTags, currentTags) ==
    {Call("AddTagToTask", b, taskID, NoTask, t) : t \in Range(beanTags) \ currentTags}

TagEnsureCalls(b, taskID, beanTags, currentTags) ==
    IF spaceID = ""
    THEN {}
    ELSE {Call("EnsureSpaceTag", b, NoTask, NoTask, t) : t \in Range(beanTags) \ currentTags}

TagRemoveCalls(b, taskID, beanTags, currentTags) ==
    {Call("RemoveTagFromTask", b, taskID, NoTask, t) : t \in currentTags \ Range(beanTags)}

\* The space ID GetList is let to answer: none (the call fails or the list
\* has no space) in a run of one bean only.
SpaceIDsFor(n) == IF n = 1 THEN {"", "s"} ELSE {"s"}

\* SyncBeans, lines 69-148: prefetch, link preload, layering, and the start
\* of pass 1.
SyncBeansStart ==
    /\ pc = "start"
    /\ spaceID' \in SpaceIDsFor(N)
    /\ beanToTaskID' = [b \in BeanIDs |->
                           IF b \in RunIDs THEN ExtGetTaskID(provider, b) ELSE NoTask]
    /\ results' = [i \in 1..N |-> EmptyResult]
    /\ wpc' = [b \in BeanIDs |-> IF b \in Roots THEN "begin" ELSE "idle"]
    /\ cache0' = provider.cache
    /\ pc' = "pass1"
    /\ UNCHANGED <<beanList, opts, wres, completed, runErr, nextTask, remoteTasks,
                   calls, provider, flushVars, storeVars, saveVars>>
    /\ UNCHANGED <<otherVars, failed>>

Running == pc \in {"pass1", "pass2"}

Finish(b, action, err) ==
    /\ wres' = [wres EXCEPT ![b].Action = action, ![b].Error = err]
    /\ wpc' = [wpc EXCEPT ![b] = "post"]

\* syncBean, lines 184-208: the link lookup and the staleness check.
SyncBeanBegin(b) ==
    /\ Running
    /\ wpc[b] = "begin"
    /\ LET taskID == ExtGetTaskID(provider, b)
           res == [EmptyResult EXCEPT !.BeanID = b, !.TaskID = taskID]
       IN  IF taskID # NoTask
           THEN IF ~opts.Force /\ ~needsSync(provider, BeanOf(b))
                THEN /\ wres' = [wres EXCEPT ![b] = [res EXCEPT !.Action = "skipped"]]
                     /\ wpc' = [wpc EXCEPT ![b] = "post"]
                ELSE /\ wres' = [wres EXCEPT ![b] = res]
                     /\ wpc' = [wpc EXCEPT ![b] = "getTask"]
           ELSE /\ wres' = [wres EXCEPT ![b] = res]
                /\ wpc' = [wpc EXCEPT ![b] = "create"]
    /\ UNCHANGED <<beanList, opts, spaceID, beanToTaskID, pc, results, completed,
                   runErr, nextTask, remoteTasks, calls, cache0, provider,
                   flushVars, storeVars, saveVars>>
    /\ UNCHANGED <<otherVars, failed>>

\* syncBean, lines 210-229: GetTask and what follows from its answer.
SyncBeanGetTask(b) ==
    /\ Running
    /\ wpc[b] = "getTask"
    /\ \E answer \in {"ok", "not found", "error"} :
        CASE answer = "error" ->
                /\ Finish(b, "error", "fetching task")
                /\ provider' = provider
          [] answer = "not found" ->
                /\ provider' = ExtClear(provider, b)
                /\ wpc' = [wpc EXCEPT ![b] = "create"]
                /\ wres' = wres
          [] answer = "ok" ->
                /\ provider' = provider
                /\ IF opts.DryRun
                   THEN Finish(b, "would update", "")
                   ELSE /\ wpc' = [wpc EXCEPT ![b] = "update"]
                        /\ wres' = wres
    /\ UNCHANGED <<beanList, opts, spaceID, beanToTaskID, pc, results, completed,
                   runErr, nextTask, remoteTasks, calls, cache0,
                   flushVars, storeVars, saveVars>>
    /\ UNCHANGED <<otherVars, failed>>

\* A best-effort result that counts the calls attempted, failed or not.
AnyAttempted(made, failing) == made # {}

\* updateChangedCustomFields and syncTags report a change when one of their
\* calls succeeded (lines 515, 523, 533, 627 and 638).
AnySucceeded(made, failing) == made \ failing # {}

\* An update that names the absence of a change in its own way.
UpdateActionOther(hasChanges_, customFieldsUpdated, tagsChanged) ==
    IF hasChanges_ \/ customFieldsUpdated \/ tagsChanged
    THEN "updated"
    ELSE "up to date"

\* The action of an update that did not fail, lines 254-258.
UpdateAction(hasChanges_, customFieldsUpdated, tagsChanged) ==
    IF hasChanges_ \/ customFieldsUpdated \/ tagsChanged
    THEN "updated"
    ELSE "unchanged"

\* syncBean, lines 231-260: the update of an existing task. task is the
\* answer GetTask gave; updateOK, fieldOK and tagFail say which remote calls
\* succeed.
SyncBeanUpdate(b) ==
    /\ Running
    /\ wpc[b] = "update"
    /\ \E task \in TaskInfosFor(b), updateOK \in BOOLEAN, fieldOK \in BOOLEAN :
        LET taskID == wres[b].TaskID
            bean == BeanOf(b)
            updateCalls == IF task.changed
                           THEN {Call("UpdateTask", b, taskID, NoTask, "")}
                           ELSE {}
            fieldCalls == IF task.customFieldDiffers
                          THEN {Call("SetCustomFieldValue", b, taskID, NoTask, "")}
                          ELSE {}
            fieldFail == IF fieldOK THEN {} ELSE fieldCalls
            tagCalls == TagAddCalls(b, taskID, bean.Tags, task.Tags)
                            \union TagRemoveCalls(b, taskID, bean.Tags, task.Tags)
        IN  IF task.changed /\ ~updateOK
            THEN /\ calls' = calls \union updateCalls
                 /\ Finish(b, "error", "updating task")
                 /\ provider' = provider
                 /\ failed' = failed
            ELSE \E tagFail \in SUBSET tagCalls :
                 /\ calls' = calls \union updateCalls \union fieldCalls \union tagCalls
                        \union TagEnsureCalls(b, taskID, bean.Tags, task.Tags)
                 /\ failed' = failed \union fieldFail \union tagFail
                 /\ provider' = ExtSetSyncedAt(provider, b, Now)
                 /\ Finish(b, UpdateAction(task.changed,
                                           AnySucceeded(fieldCalls, fieldFail),
                                           AnySucceeded(tagCalls, tagFail)), "")
    /\ UNCHANGED <<beanList, opts, spaceID, beanToTaskID, pc, results, completed,
                   runErr, nextTask, remoteTasks, cache0,
                   flushVars, storeVars, saveVars>>
    /\ UNCHANGED otherVars

\* syncBean, lines 263-300: the preview answer, or the create request with
\* the parent read from beanToTaskID, and CreateTask.
SyncBeanCreate(b) ==
    /\ Running
    /\ wpc[b] = "create"
    /\ IF opts.DryRun
       THEN /\ Finish(b, "would create", "")
            /\ UNCHANGED <<calls, nextTask, remoteTasks>>
       ELSE LET bean == BeanOf(b)
                parent == IF bean.Parent # NoBean THEN beanToTaskID[bean.Parent]
                          ELSE NoTask
            IN  \E ok \in BOOLEAN :
                    IF ok
                    THEN /\ calls' = calls \union
                                {Call("CreateTask", b, nextTask, parent, "")}
                         /\ remoteTasks' = remoteTasks \union {nextTask}
                         /\ nextTask' = nextTask + 1
                         /\ wres' = [wres EXCEPT ![b].TaskID = nextTask]
                         /\ wpc' = [wpc EXCEPT ![b] = "created"]
                    ELSE /\ calls' = calls \union
                                {Call("CreateTask", b, NoTask, parent, "")}
                         /\ Finish(b, "error", "creating task")
                         /\ UNCHANGED <<nextTask, remoteTasks>>
    /\ UNCHANGED <<beanList, opts, spaceID, beanToTaskID, pc, results, completed,
                   runErr, cache0, provider, flushVars, storeVars, saveVars>>
    /\ UNCHANGED <<otherVars, failed>>

\* syncBean, lines 302-314: the new task is recorded in beanToTaskID, its
\* tags are added, and the link is stored.
SyncBeanCreated(b) ==
    /\ Running
    /\ wpc[b] = "created"
    /\ LET taskID == wres[b].TaskID
           bean == BeanOf(b)
           tagCalls == TagAddCalls(b, taskID, bean.Tags, {})
       IN  /\ beanToTaskID' = [beanToTaskID EXCEPT ![b] = taskID]
           /\ calls' = calls \union tagCalls
                             \union TagEnsureCalls(b, taskID, bean.Tags, {})
           /\ \E tagFail \in SUBSET tagCalls : failed' = failed \union tagFail
           /\ provider' = ExtSetSyncedAt(ExtSetTaskID(provider, b, taskID), b, Now)
    /\ Finish(b, "created", "")
    /\ UNCHANGED <<beanList, opts, spaceID, pc, results, completed,
                   runErr, nextTask, remoteTasks, cache0,
                   flushVars, storeVars, saveVars>>
    /\ UNCHANGED otherVars

\* A counter read and written back outside mu: two workers that read the
\* same value lose one increment.
reportProgressUnlocked(onProgress, count) ==
    IF onProgress /\ count = 0 THEN count + 1 ELSE count

\* reportProgress, lines 122-131: with a callback set, completed is raised by
\* one under mu and the new value is the count handed to the callback.
reportProgress(onProgress, count) ==
    IF onProgress THEN count + 1 ELSE count

\* total, line 116: the number of input items, handed to every callback.
total == Len(beanList)

\* The worker's closure, lines 136-145: the result goes to its index, the
\* task ID to beanToTaskID (under mu), and progress is reported.
SyncBeanPost(b) ==
    /\ Running
    /\ wpc[b] = "post"
    /\ results' = [results EXCEPT ![beanIndex(b)] = wres[b]]
    /\ beanToTaskID' =
          IF wres[b].Error = "" /\ wres[b].Action # "skipped" /\ wres[b].TaskID # NoTask
          THEN [beanToTaskID EXCEPT ![b] = wres[b].TaskID]
          ELSE beanToTaskID
    /\ completed' = reportProgress(opts.OnProgress, completed)
    /\ wpc' = [wpc EXCEPT ![b] = "done"]
    /\ UNCHANGED <<beanList, opts, spaceID, pc, wres, runErr, nextTask,
                   remoteTasks, calls, cache0, provider,
                   flushVars, storeVars, saveVars>>
    /\ UNCHANGED <<otherVars, failed>>

\* An access of beanToTaskID that a worker is about to make outside mu: the
\* parent lookup of line 290, or the write of line 304.
UnguardedAccessPending(b) ==
    \/ wpc[b] = "created"
    \/ /\ wpc[b] = "create"
       /\ ~opts.DryRun
       /\ BeanOf(b).Parent # NoBean

\* A write of beanToTaskID that a worker is about to make: line 304, or
\* line 142 under mu.
WritePending(b) ==
    \/ wpc[b] = "created"
    \/ /\ wpc[b] = "post"
       /\ wres[b].Error = "" /\ wres[b].Action # "skipped" /\ wres[b].TaskID # NoTask

\* Two workers are about to access beanToTaskID, one of them writing, with
\* no lock ordering the two: the Go runtime may stop the process ("fatal
\* error: concurrent map writes" or "concurrent map read and map write").
\* The other outcome, both accesses taking effect, is the workers' own steps.
FatalMapRace ==
    /\ Running
    /\ \E b \in RunIDs, o \in RunIDs :
        /\ b # o
        /\ WritePending(b)
        /\ UnguardedAccessPending(o)
    /\ pc' = "crashed"
    /\ UNCHANGED <<beanList, opts, spaceID, beanToTaskID, wpc, wres, results,
                   completed, runErr, nextTask, remoteTasks, calls, cache0,
                   provider, flushVars, storeVars, saveVars>>
    /\ UNCHANGED <<otherVars, failed>>

\* A join that is over when the first worker of the pass has returned.
JoinedFirst(S, finished) == S = {} \/ \E b \in S : wpc[b] = finished

\* A join that gives up as soon as one worker has ended in error.
JoinedOrFailed(S, finished) ==
    \/ \A b \in S : wpc[b] = finished
    \/ \E b \in S : wpc[b] = finished /\ wres[b].Error # ""

\* wg.Wait(), lines 148, 165 and 177: every worker of the pass has returned.
Joined(S, finished) == \A b \in S : wpc[b] = finished

\* wg.Wait() of line 148 and the start of pass 2.
Pass1Wait ==
    /\ pc = "pass1"
    /\ Joined(Roots, "done")
    /\ wpc' = [b \in BeanIDs |-> IF b \in Dependents THEN "begin" ELSE wpc[b]]
    /\ pc' = "pass2"
    /\ UNCHANGED <<beanList, opts, spaceID, beanToTaskID, wres, results,
                   completed, runErr, nextTask, remoteTasks, calls, cache0,
                   provider, flushVars, storeVars, saveVars>>
    /\ UNCHANGED <<otherVars, failed>>

\* wg.Wait() of line 165 and, lines 167-180, the start of pass 3 or the return.
Pass2Wait ==
    /\ pc = "pass2"
    /\ Joined(Dependents, "done")
    /\ IF ~opts.NoRelationships /\ ~opts.DryRun
       THEN /\ wpc' = [b \in BeanIDs |-> IF b \in RunIDs THEN "relationships" ELSE wpc[b]]
            /\ pc' = "pass3"
       ELSE /\ wpc' = wpc
            /\ pc' = "returned"
    /\ UNCHANGED <<beanList, opts, spaceID, beanToTaskID, wres, results,
                   completed, runErr, nextTask, remoteTasks, calls, cache0,
                   provider, flushVars, storeVars, saveVars>>
    /\ UNCHANGED <<otherVars, failed>>

\* Dependency calls with the two tasks exchanged: the blocker waits on the
\* blocked bean.
DependencyCallsReversed(b) ==
    IF beanToTaskID[b] = NoTask
    THEN {}
    ELSE {Call("AddDependency", b, beanToTaskID[b], beanToTaskID[blocked], "") :
            blocked \in {x \in Range(BeanOf(b).Blocking) : beanToTaskID[x] # NoTask}}

\* syncRelationships, lines 649-677: one AddDependency call per blocked bean
\* with a known task; errors are ignored.
DependencyCalls(b) ==
    IF beanToTaskID[b] = NoTask
    THEN {}
    ELSE {Call("AddDependency", b, beanToTaskID[blocked], beanToTaskID[b], "") :
            blocked \in {x \in Range(BeanOf(b).Blocking) : beanToTaskID[x] # NoTask}}

syncRelationships(b) ==
    /\ pc = "pass3"
    /\ wpc[b] = "relationships"
    /\ calls' = calls \union DependencyCalls(b)
    /\ \E depFail \in SUBSET DependencyCalls(b) : failed' = failed \union depFail
    /\ wpc' = [wpc EXCEPT ![b] = "related"]
    /\ UNCHANGED <<beanList, opts, spaceID, beanToTaskID, pc, wres, results,
                   completed, runErr, nextTask, remoteTasks, cache0,
                   provider, flushVars, storeVars, saveVars>>
    /\ UNCHANGED otherVars

\* wg.Wait() of line 177 and the return of line 180.
Pass3Wait ==
    /\ pc = "pass3"
    /\ Joined(RunIDs, "related")
    /\ pc' = "returned"
    /\ UNCHANGED <<beanList, opts, spaceID, beanToTaskID, wpc, wres, results,
                   completed, runErr, nextTask, remoteTasks, calls, cache0,
                   provider, flushVars, storeVars, saveVars>>
    /\ UNCHANGED <<otherVars, failed>>

(***************************************************************************)
(* The sync command (cmd/sync.go)                                          *)
(***************************************************************************)
\* A command that flushes in a preview run too.
FlushAlways(dryRun) == TRUE

\* RunE, line 137: the sync state is flushed unless --dry-run.
FlushWanted(dryRun) == ~dryRun

\* RunE, lines 126-141: SyncBeans returned no error; Flush unless --dry-run.
RunAfterSync ==
    /\ pc = "returned"
    /\ pc' = IF FlushWanted(opts.DryRun) THEN "flush" ELSE "done"
    /\ UNCHANGED <<beanList, opts, spaceID, beanToTaskID, wpc, wres, results,
                   completed, runErr, nextTask, remoteTasks, calls, cache0,
                   provider, flushVars, storeVars, saveVars>>
    /\ UNCHANGED <<otherVars, failed>>

\* A command that drops Flush's error.
RunFlushedSilently ==
    /\ pc = "flush"
    /\ flushPc = "done"
    /\ runErr' = ""
    /\ pc' = "done"
    /\ UNCHANGED <<beanList, opts, spaceID, beanToTaskID, wpc, wres, results,
                   completed, nextTask, remoteTasks, calls, cache0,
                   provider, flushVars, storeVars, saveVars>>
    /\ UNCHANGED <<otherVars, failed>>

\* RunE, lines 138-147: Flush returned; its error is the command's error.
RunFlushed ==
    /\ pc = "flush"
    /\ flushPc = "done"
    /\ runErr' = IF flushErr THEN "saving sync state" ELSE ""
    /\ pc' = "done"
    /\ UNCHANGED <<beanList, opts, spaceID, beanToTaskID, wpc, wres, results,
                   completed, nextTask, remoteTasks, calls, cache0,
                   provider, flushVars, storeVars, saveVars>>
    /\ UNCHANGED <<otherVars, failed>>

(***************************************************************************)
(* Store (syncstate/store.go)                                              *)
(***************************************************************************)
\* The beans the store specifications speak of.
StoreBeans == {1, 2}

\* An entry of Store.data.Beans: no key ("absent"), a nil *BeanSync ("null"),
\* a BeanSync with a nil ClickUp ("noClickUp"), or a ClickUpSync ("clickup").
BeanSync(state, taskID, syncedAt) ==
    [state |-> state, taskID |-> taskID, syncedAt |-> syncedAt]

NoBeanSync == BeanSync("absent", NoTask, NoTime)

\* GetTaskID, lines 82-91.
StoreGetTaskID(d, b) ==
    IF d[b].state # "clickup" \/ d[b].taskID = NoTask THEN NoTask ELSE d[b].taskID

\* GetSyncedAt, lines 94-103.
StoreGetSyncedAt(d, b) ==
    IF d[b].state # "clickup" THEN NoTime ELSE d[b].syncedAt

\* ensureBean, lines 186-193.
ensureBean(d, b) ==
    IF d[b].state = "clickup"
    THEN d
    ELSE [d EXCEPT ![b] = BeanSync("clickup", NoTask, NoTime)]

\* SetTaskID, lines 106-112.
StoreSetTaskID(d, b, t) == [ensureBean(d, b) EXCEPT ![b].taskID = t]

\* SetSyncedAt, lines 115-122.
StoreSetSyncedAt(d, b, t) == [ensureBean(d, b) EXCEPT ![b].syncedAt = t]

\* A Clear that forgets the task ID and keeps the synced-at.
StoreClearTaskOnly(d, b) == [d EXCEPT ![b].taskID = NoTask]

\* Clear, lines 125-130.
StoreClear(d, b) == [d EXCEPT ![b] = NoBeanSync]

\* A file that does not exist.
NoFile == [exists |-> FALSE, data |-> <<>>]

(***************************************************************************)
(* Inputs of a run                                                         *)
(***************************************************************************)
\* How a bean stands before the run: linked or not, the link's synced-at,
\* the bean's updated-at.
LinkCase(linked, syncedAt, updatedAt) ==
    [linked |-> linked, syncedAt |-> syncedAt, updatedAt |-> updatedAt]

RichCases ==
    {LinkCase(FALSE, NoTime, 1), LinkCase(FALSE, 2, 1), LinkCase(TRUE, NoTime, 1),
     LinkCase(TRUE, 2, NoTime), LinkCase(TRUE, 2, 1), LinkCase(TRUE, 2, 2),
     LinkCase(TRUE, 2, 3)}

PlainCases ==
    {LinkCase(FALSE, NoTime, 1), LinkCase(TRUE, 2, 2), LinkCase(TRUE, 2, 3)}

SmallCases == {LinkCase(FALSE, NoTime, 1), LinkCase(TRUE, 2, 3)}

\* The ways the beans 1..n stand before a run of n beans. With three beans
\* or more, the first is linked or not and the others are not linked.
CaseMaps(n) ==
    IF n = 1 THEN [1..n -> RichCases]
    ELSE IF n = 2 THEN [1..n -> PlainCases]
    ELSE {[i \in 1..n |-> IF i = 1 THEN c ELSE LinkCase(FALSE, NoTime, 1)] :
            c \in SmallCases}

\* The parents of the beans 1..n. Bean n + 1 is a bean that is not part of
\* the run. With three beans or more, every bean but the first has the first
\* or its predecessor as its parent: chains, stars and what lies between;
\* and one map has every bean but the last as a root, the last a child of
\* the first.
ParentMaps(n) ==
    IF n <= 2
    THEN {[i \in 1..n |-> IF i = 1 THEN p1 ELSE p2] :
            p1 \in {NoBean, n + 1}, p2 \in {NoBean, 1}}
    ELSE {[i \in 1..n |-> IF i = 1 THEN NoBean ELSE IF i \in T THEN 1 ELSE i - 1] :
            T \in SUBSET (3..n)}
         \cup {[i \in 1..n |-> IF i < n THEN NoBean ELSE 1]}

\* The blocking lists of the beans 1..n: only the first bean blocks others.
BlockingMaps(n) ==
    IF n = 1 THEN {[i \in 1..n |-> <<>>]}
    ELSE IF n = 2
    THEN {[i \in 1..n |-> IF i = 1 THEN l ELSE <<>>] : l \in {<<>>, <<2, 3>>}}
    ELSE {[i \in 1..n |-> IF i = 1 THEN <<n, n + 1>> ELSE <<>>]}

TagsFor(n, i) == IF i = 1 /\ n <= 2 THEN <<"x">> ELSE <<>>

OrdersFor(n) ==
    IF n <= 2
    THEN {o \in [1..n -> 1..n] : \A i, j \in 1..n : i # j => o[i] # o[j]}
    ELSE {[i \in 1..n |-> i], [i \in 1..n |-> n + 1 - i]}

OptionsFor(n) ==
    IF n <= 2
    THEN [DryRun : BOOLEAN, Force : BOOLEAN, NoRelationships : BOOLEAN,
          OnProgress : {n = 1}]
    ELSE [DryRun : BOOLEAN, Force : {FALSE}, NoRelationships : {FALSE},
          OnProgress : {TRUE}]

\* NewExtensionSyncProvider, lines 41-60: an entry for every bean with a task
\* ID or a synced-at in its extension data.
InitialCache(n, cases) ==
    [b \in BeanIDs |->
        IF b <= n /\ (cases[b].linked \/ cases[b].syncedAt # NoTime)
        THEN [present |-> TRUE,
              taskID |-> IF cases[b].linked THEN OldTask(b) ELSE NoTask,
              syncedAt |-> cases[b].syncedAt]
        ELSE NoEntry]

IdleFlush ==
    /\ flushPc = "idle"
    /\ flushSetOps = {}
    /\ flushRemoveIDs = {}
    /\ flushErr = FALSE
    /\ batchCalls = <<>>
    /\ removeCalls = <<>>
    /\ flushed0 = <<>>

NoStore ==
    /\ fdata = [b \in StoreBeans |-> NoBeanSync]
    /\ nOps = 0

NoSave ==
    /\ disk = [final |-> NoFile, tmp |-> NoFile]
    /\ disk0 = NoFile
    /\ savePc = "idle"
    /\ saveData = <<>>
    /\ nSaves = 0

\* The state machines a specification does not run stay as they are.
OthersIdle ==
    /\ conc = <<>>
    /\ client = <<>>
    /\ pure = <<>>
    /\ timed = <<>>
    /\ failed = {}

\* The state when the sync command has built the provider and the Syncer
\* (NewSyncer, lines 53-62).
Init ==
    \E n \in 1..MaxBeans :
      \E order \in OrdersFor(n), cases \in CaseMaps(n),
         parents \in ParentMaps(n), blocking \in BlockingMaps(n) :
        /\ beanList = [k \in 1..n |->
                         [ID |-> order[k], Parent |-> parents[order[k]],
                          Blocking |-> blocking[order[k]],
                          UpdatedAt |-> cases[order[k]].updatedAt,
                          Tags |-> TagsFor(n, order[k])]]
        /\ opts \in OptionsFor(n)
        /\ provider = [cache |-> InitialCache(n, cases), ops |-> <<>>]
        /\ extData = InitialCache(n, cases)
        /\ cache0 = InitialCache(n, cases)
        /\ spaceID = ""
        /\ beanToTaskID = [b \in BeanIDs |-> NoTask]
        /\ pc = "start"
        /\ wpc = [b \in BeanIDs |-> "idle"]
        /\ wres = [b \in BeanIDs |-> EmptyResult]
        /\ results = <<>>
        /\ completed = 0
        /\ runErr = ""
        /\ nextTask = MaxBeans + 1
        /\ remoteTasks = {}
        /\ calls = {}
        /\ IdleFlush
        /\ NoStore
        /\ NoSave
        /\ OthersIdle

Next ==
    \/ SyncBeansStart
    \/ \E b \in RunIDs : SyncBeanBegin(b)
    \/ \E b \in RunIDs : SyncBeanGetTask(b)
    \/ \E b \in RunIDs : SyncBeanUpdate(b)
    \/ \E b \in RunIDs : SyncBeanCreate(b)
    \/ \E b \in RunIDs : SyncBeanCreated(b)
    \/ \E b \in RunIDs : SyncBeanPost(b)
    \/ FatalMapRace
    \/ Pass1Wait
    \/ Pass2Wait
    \/ \E b \in RunIDs : syncRelationships(b)
    \/ Pass3Wait
    \/ RunAfterSync
    \/ FlushBegin
    \/ FlushBatch
    \/ FlushRemove
    \/ RunFlushed

Spec == Init /\ [][Next]_vars

\* The sync run with its scheduling: the Go scheduler runs every runnable
\* goroutine, a remote call that was sent returns, and wg.Wait() returns
\* once the workers it waits for are done, so a run that can take a step
\* eventually takes one.
SpecLive == Init /\ [][Next]_vars /\ WF_vars(Next)

(***************************************************************************)
(* The two stores side by side                                             *)
(***************************************************************************)
\* The task IDs and times the store calls are made with.
CallTasks == {NoTask, 7}

CallTimes == {5}

\* A caller sets a task ID in both stores.
CallSetTaskID ==
    /\ pc = "store"
    /\ nOps < MaxOps
    /\ \E b \in StoreBeans, t \in CallTasks :
        /\ provider' = ExtSetTaskID(provider, b, t)
        /\ fdata' = StoreSetTaskID(fdata, b, t)
    /\ nOps' = nOps + 1
    /\ UNCHANGED <<syncVars, flushVars, saveVars>>
    /\ UNCHANGED <<otherVars, failed>>

\* A caller sets a synced-at in both stores.
CallSetSyncedAt ==
    /\ pc = "store"
    /\ nOps < MaxOps
    /\ \E b \in StoreBeans, t \in CallTimes :
        /\ provider' = ExtSetSyncedAt(provider, b, t)
        /\ fdata' = StoreSetSyncedAt(fdata, b, t)
    /\ nOps' = nOps + 1
    /\ UNCHANGED <<syncVars, flushVars, saveVars>>
    /\ UNCHANGED <<otherVars, failed>>

\* A caller clears a bean in both stores.
CallClear ==
    /\ pc = "store"
    /\ nOps < MaxOps
    /\ \E b \in StoreBeans :
        /\ provider' = ExtClear(provider, b)
        /\ fdata' = StoreClear(fdata, b)
    /\ nOps' = nOps + 1
    /\ UNCHANGED <<syncVars, flushVars, saveVars>>
    /\ UNCHANGED <<otherVars, failed>>

\* The links the two stores start from: none, a task never synced, a task
\* synced, a synced-at without a task.
Link(taskID, syncedAt) == [taskID |-> taskID, syncedAt |-> syncedAt]

InitialLinks == {Link(NoTask, NoTime), Link(1, NoTime), Link(1, 2), Link(NoTask, 2)}

\* The entries of the state file that Load reads a link from.
BeanSyncsOf(link) ==
    IF link = Link(NoTask, NoTime)
    THEN {BeanSync(st, NoTask, NoTime) : st \in {"absent", "null", "noClickUp", "clickup"}}
    ELSE {BeanSync("clickup", link.taskID, link.syncedAt)}

\* The cache entry NewExtensionSyncProvider builds from a link.
CacheEntryOf(link) ==
    IF link = Link(NoTask, NoTime)
    THEN NoEntry
    ELSE [present |-> TRUE, taskID |-> link.taskID, syncedAt |-> link.syncedAt]

IdleSync ==
    /\ beanList = <<>>
    /\ opts = [DryRun |-> FALSE, Force |-> FALSE, NoRelationships |-> FALSE,
               OnProgress |-> FALSE]
    /\ spaceID = ""
    /\ beanToTaskID = [b \in BeanIDs |-> NoTask]
    /\ wpc = [b \in BeanIDs |-> "idle"]
    /\ wres = [b \in BeanIDs |-> EmptyResult]
    /\ results = <<>>
    /\ completed = 0
    /\ runErr = ""
    /\ nextTask = MaxBeans + 1
    /\ remoteTasks = {}
    /\ calls = {}
    /\ cache0 = EmptyCache

InitStore ==
    /\ pc = "store"
    /\ IdleSync
    /\ \E links \in [StoreBeans -> InitialLinks] :
        /\ provider = [cache |-> [b \in BeanIDs |->
                                    IF b \in StoreBeans THEN CacheEntryOf(links[b])
                                    ELSE NoEntry],
                       ops |-> <<>>]
        /\ extData = provider.cache
        /\ fdata \in [StoreBeans -> UNION {BeanSyncsOf(l) : l \in InitialLinks}]
        /\ \A b \in StoreBeans : fdata[b] \in BeanSyncsOf(links[b])
    /\ nOps = 0
    /\ IdleFlush
    /\ NoSave
    /\ OthersIdle

NextStore ==
    \/ CallSetTaskID
    \/ CallSetSyncedAt
    \/ CallClear
    \/ FlushBegin
    \/ FlushBatch
    \/ FlushRemove

SpecStore == InitStore /\ [][NextStore]_vars

(***************************************************************************)
(* Store.Save on a file system                                             *)
(***************************************************************************)
File(data) == [exists |-> TRUE, data |-> data]

\* json.MarshalIndent of the store's data, as the pieces a write can stop
\* between: the opening of the document, one piece per bean with a key (in
\* key order), the closing of the document.
Piece(kind, b, e) ==
    [kind |-> kind, bean |-> b, state |-> e.state, taskID |-> e.taskID,
     syncedAt |-> e.syncedAt]

RECURSIVE MarshalFrom(_, _)
MarshalFrom(d, b) ==
    IF b \notin StoreBeans
    THEN <<Piece("close", NoBean, NoBeanSync)>>
    ELSE IF d[b].state = "absent"
    THEN MarshalFrom(d, b + 1)
    ELSE <<Piece("bean", b, d[b])>> \o MarshalFrom(d, b + 1)

Marshal(d) == <<Piece("open", NoBean, NoBeanSync)>> \o MarshalFrom(d, 1)

\* A document json.Unmarshal accepts: opened and closed.
Complete(data) ==
    /\ Len(data) >= 2
    /\ data[1].kind = "open"
    /\ data[Len(data)].kind = "close"

\* A caller changes the store between or during Save calls.
SaveMutate ==
    /\ pc = "save"
    /\ nOps < MaxOps
    /\ \E b \in StoreBeans :
        \/ fdata' = StoreSetTaskID(fdata, b, 7)
        \/ fdata' = StoreSetSyncedAt(fdata, b, Now)
        \/ fdata' = StoreClear(fdata, b)
    /\ nOps' = nOps + 1
    /\ UNCHANGED <<syncVars, provider, flushVars, saveVars>>
    /\ UNCHANGED <<otherVars, failed>>

\* Save, lines 143-158: the data is marshalled under the read lock and the
\* temp file is created; an error is returned.
SaveBegin ==
    /\ pc = "save"
    /\ savePc = "idle"
    /\ nSaves < MaxSaves
    /\ nSaves' = nSaves + 1
    /\ saveData' = Marshal(fdata)
    /\ disk0' = disk.final
    /\ \E ok \in BOOLEAN :
        IF ok
        THEN /\ disk' = [disk EXCEPT !.tmp = File(<<>>)]
             /\ savePc' = "write"
        ELSE /\ disk' = disk
             /\ savePc' = "idle"
    /\ UNCHANGED <<syncVars, provider, flushVars, storeVars>>
    /\ UNCHANGED <<otherVars, failed>>

\* A Write that goes to the state file itself.
WriteInPlace(dk, piece) ==
    [final |-> File(Append(dk.tmp.data, piece)),
     tmp |-> File(Append(dk.tmp.data, piece))]

\* The file tmpFile.Write writes to: the temp file.
WriteTo(dk, piece) == [dk EXCEPT !.tmp.data = Append(@, piece)]

\* Save, line 167: Write puts the next piece of the data into the file.
SaveWrite ==
    /\ pc = "save"
    /\ savePc = "write"
    /\ Len(disk.tmp.data) < Len(saveData)
    /\ disk' = WriteTo(disk, saveData[Len(disk.tmp.data) + 1])
    /\ UNCHANGED <<disk0, savePc, saveData, nSaves,
                   syncVars, provider, flushVars, storeVars>>
    /\ UNCHANGED <<otherVars, failed>>

\* Save, lines 161-173: Write or Close returns an error; the deferred
\* function removes the temp file.
SaveWriteError ==
    /\ pc = "save"
    /\ savePc = "write"
    /\ disk' = [disk EXCEPT !.tmp = NoFile]
    /\ savePc' = "idle"
    /\ UNCHANGED <<disk0, saveData, nSaves,
                   syncVars, provider, flushVars, storeVars>>
    /\ UNCHANGED <<otherVars, failed>>

\* Save, lines 171-173: everything is written and Close succeeds.
SaveClose ==
    /\ pc = "save"
    /\ savePc = "write"
    /\ Len(disk.tmp.data) = Len(saveData)
    /\ savePc' = "rename"
    /\ UNCHANGED <<disk, disk0, saveData, nSaves,
                   syncVars, provider, flushVars, storeVars>>
    /\ UNCHANGED <<otherVars, failed>>

\* Save, lines 175-182: os.Rename moves the temp file over the state file in
\* one step, or fails and the deferred function removes the temp file.
SaveRename ==
    /\ pc = "save"
    /\ savePc = "rename"
    /\ \E ok \in BOOLEAN :
        IF ok
        THEN disk' = [final |-> disk.tmp, tmp |-> NoFile]
        ELSE disk' = [disk EXCEPT !.tmp = NoFile]
    /\ savePc' = "idle"
    /\ UNCHANGED <<disk0, saveData, nSaves,
                   syncVars, provider, flushVars, storeVars>>
    /\ UNCHANGED <<otherVars, failed>>

\* The process stops: the files stay as they are.
SaveCrash ==
    /\ pc = "save"
    /\ pc' = "crashed"
    /\ UNCHANGED <<beanList, opts, spaceID, beanToTaskID, wpc, wres, results,
                   completed, runErr, nextTask, remoteTasks, calls, cache0,
                   provider, flushVars, storeVars, saveVars>>
    /\ UNCHANGED <<otherVars, failed>>

InitSave ==
    /\ pc = "save"
    /\ IdleSync
    /\ provider = [cache |-> EmptyCache, ops |-> <<>>]
    /\ extData = EmptyCache
    /\ IdleFlush
    /\ \E links \in [StoreBeans -> InitialLinks] :
        fdata = [b \in StoreBeans |->
                    IF links[b] = Link(NoTask, NoTime) THEN NoBeanSync
                    ELSE BeanSync("clickup", links[b].taskID, links[b].syncedAt)]
    /\ nOps = 0
    /\ disk \in {[final |-> NoFile, tmp |-> NoFile],
                 [final |-> File(Marshal(fdata)), tmp |-> NoFile]}
    /\ disk0 = disk.final
    /\ savePc = "idle"
    /\ saveData = <<>>
    /\ nSaves = 0
    /\ OthersIdle

NextSave ==
    \/ SaveMutate
    \/ SaveBegin
    \/ SaveWrite
    \/ SaveWriteError
    \/ SaveClose
    \/ SaveRename
    \/ SaveCrash

SpecSave == InitSave /\ [][NextSave]_vars

(***************************************************************************)
(* Workers calling the ExtensionSyncProvider concurrently                  *)
(***************************************************************************)
Workers == {1, 2}

\* No object: a nil pointer, or a bean without a key in the cache map.
Nil == 0

\* The *extensionCache objects the provider can allocate: one per bean at
\* construction, one per later call.
Objects == 1..(Cardinality(StoreBeans) + MaxOps)

\* The calls a worker makes.
ConcCall(kind, b, arg) == [kind |-> kind, bean |-> b, arg |-> arg]

NoCall == ConcCall("none", NoBean, NoTask)

ConcCalls ==
    {ConcCall("SetTaskID", b, t) : b \in StoreBeans, t \in CallTasks}
        \union {ConcCall("SetSyncedAt", b, t) : b \in StoreBeans, t \in CallTimes}
        \union {ConcCall(k, b, NoTask) :
                  k \in {"Clear", "GetTaskID", "GetSyncedAt"}, b \in StoreBeans}
        \union {ConcCall("Flush", NoBean, NoTask)}

IsRead(call) == call.kind \in {"GetTaskID", "GetSyncedAt"}

\* What the caller of a getter has in hand: a nil pointer, or the value it
\* reads through the pointer.
Answer(isNil, value) == [isNil |-> isNil, value |-> value]

NoAnswer == Answer(TRUE, NoTask)

\* The provider as the callers of the sequential operators see it: the map
\* of pointers and the objects behind them as a map of entries.
ConcView ==
    [cache |-> [b \in BeanIDs |->
                  IF b \in StoreBeans /\ conc.cache[b] # Nil
                  THEN [present |-> TRUE,
                        taskID |-> conc.heap[conc.cache[b]].taskID,
                        syncedAt |-> conc.heap[conc.cache[b]].syncedAt]
                  ELSE NoEntry],
     ops |-> conc.ops]

concFrame ==
    <<syncVars, flushVars, storeVars, saveVars, client, pure, timed, failed>>

\* A worker starts a call.
ConcBegin(w) ==
    /\ pc = "conc"
    /\ conc.w[w].pc = "idle"
    /\ conc.n < MaxOps
    /\ \E call \in ConcCalls :
        conc' = [conc EXCEPT !.w[w] = [pc |-> "lock", call |-> call, ref |-> Nil,
                                       got |-> NoAnswer, want |-> NoAnswer],
                             !.n = @ + 1]
    /\ UNCHANGED <<provider, concFrame>>

\* p.mu.RLock() of the getters, p.mu.Lock() of the others: a reader waits
\* for the writer to leave, a writer for everyone.
ConcLock(w) ==
    /\ pc = "conc"
    /\ conc.w[w].pc = "lock"
    /\ conc.mu.writer = Nil
    /\ IF IsRead(conc.w[w].call)
       THEN conc' = [conc EXCEPT !.mu.readers = @ \union {w}, !.w[w].pc = "body"]
       ELSE /\ conc.mu.readers = {}
            /\ conc' = [conc EXCEPT !.mu.writer = w, !.w[w].pc = "body"]
    /\ UNCHANGED <<provider, concFrame>>

\* The object a set call writes to: the bean's, or a new one.
TargetObject(b) == IF conc.cache[b] # Nil THEN conc.cache[b] ELSE conc.nobj + 1

\* The body of SetTaskID, SetSyncedAt or Clear under the lock (lines 84-113).
\* provider takes the same call through the sequential operators, in the
\* order the lock is taken.
ConcMutate(w) ==
    /\ pc = "conc"
    /\ conc.w[w].pc = "body"
    /\ conc.w[w].call.kind \in {"SetTaskID", "SetSyncedAt", "Clear"}
    /\ LET call == conc.w[w].call
           b == call.bean
           obj == TargetObject(b)
           fresh == [taskID |-> NoTask, syncedAt |-> NoTime]
           old == IF conc.cache[b] # Nil THEN conc.heap[obj] ELSE fresh
           new == IF call.kind = "SetTaskID" THEN [old EXCEPT !.taskID = call.arg]
                  ELSE [old EXCEPT !.syncedAt = call.arg]
           cache1 == [ConcView.cache EXCEPT ![b] =
                        [present |-> TRUE, taskID |-> new.taskID,
                         syncedAt |-> new.syncedAt]]
       IN  IF call.kind = "Clear"
           THEN /\ conc' = [conc EXCEPT !.cache[b] = Nil,
                                        !.ops = Append(@, [beanID |-> b, set |-> FALSE,
                                                           taskID |-> NoTask,
                                                           syncedAt |-> NoTime]),
                                        !.w[w].pc = "unlock"]
                /\ provider' = ExtClear(provider, b)
           ELSE /\ conc' = [conc EXCEPT !.cache[b] = obj,
                                        !.heap[obj] = new,
                                        !.nobj = IF conc.cache[b] # Nil THEN @ ELSE @ + 1,
                                        !.ops = appendSetOp(cache1, @, b),
                                        !.w[w].pc = "unlock"]
                /\ provider' = IF call.kind = "SetTaskID"
                               THEN ExtSetTaskID(provider, b, call.arg)
                               ELSE ExtSetSyncedAt(provider, b, call.arg)
    /\ UNCHANGED concFrame

\* The body of GetTaskID or GetSyncedAt under the read lock (lines 62-82).
\* GetTaskID returns &c.taskID, a pointer into the cache entry; GetSyncedAt
\* returns the entry's pointer to a time nobody writes to.
ConcRead(w) ==
    /\ pc = "conc"
    /\ conc.w[w].pc = "body"
    /\ IsRead(conc.w[w].call)
    /\ LET call == conc.w[w].call
           obj == conc.cache[call.bean]
       IN  IF call.kind = "GetTaskID"
           THEN conc' = [conc EXCEPT
                    !.w[w].ref = IF obj = Nil \/ conc.heap[obj].taskID = NoTask
                                 THEN Nil ELSE obj,
                    !.w[w].want = Answer(ExtGetTaskID(provider, call.bean) = NoTask,
                                         ExtGetTaskID(provider, call.bean)),
                    !.w[w].pc = "unlock"]
           ELSE conc' = [conc EXCEPT
                    !.w[w].got = IF obj = Nil \/ conc.heap[obj].syncedAt = NoTime
                                 THEN NoAnswer
                                 ELSE Answer(FALSE, conc.heap[obj].syncedAt),
                    !.w[w].want = Answer(ExtGetSyncedAt(provider, call.bean) = NoTime,
                                         ExtGetSyncedAt(provider, call.bean)),
                    !.w[w].pc = "unlock"]
    /\ UNCHANGED <<provider, concFrame>>

\* Flush, lines 118-121: the pending operations are taken under the lock.
ConcFlush(w) ==
    /\ pc = "conc"
    /\ conc.w[w].pc = "body"
    /\ conc.w[w].call.kind = "Flush"
    /\ conc' = [conc EXCEPT !.taken = conc.ops, !.wanted = provider.ops,
                            !.ops = <<>>, !.w[w].pc = "unlock"]
    /\ provider' = [provider EXCEPT !.ops = <<>>]
    /\ UNCHANGED concFrame

\* The deferred Unlock or RUnlock. The caller of GetTaskID is left with the
\* pointer, the others are done.
ConcUnlock(w) ==
    /\ pc = "conc"
    /\ conc.w[w].pc = "unlock"
    /\ conc' = [conc EXCEPT
            !.mu = IF IsRead(conc.w[w].call)
                   THEN [@ EXCEPT !.readers = @ \ {w}]
                   ELSE [@ EXCEPT !.writer = Nil],
            !.w[w].pc = IF conc.w[w].call.kind = "GetTaskID" THEN "deref" ELSE "idle"]
    /\ UNCHANGED <<provider, concFrame>>

\* The caller of GetTaskID reads the task ID through the pointer (as
\* syncBean does at sync.go:205), holding no lock.
ConcDeref(w) ==
    /\ pc = "conc"
    /\ conc.w[w].pc = "deref"
    /\ conc' = [conc EXCEPT
            !.w[w].got = IF conc.w[w].ref = Nil THEN NoAnswer
                         ELSE Answer(FALSE, conc.heap[conc.w[w].ref].taskID),
            !.w[w].pc = "idle"]
    /\ UNCHANGED <<provider, concFrame>>

\* The links the concurrent callers start from.
ConcLinks == {Link(NoTask, NoTime), Link(1, 2)}

InitConc ==
    /\ pc = "conc"
    /\ IdleSync
    /\ IdleFlush
    /\ NoStore
    /\ NoSave
    /\ client = <<>>
    /\ pure = <<>>
    /\ timed = <<>>
    /\ failed = {}
    /\ extData = EmptyCache
    /\ \E links \in [StoreBeans -> ConcLinks] :
        /\ provider = [cache |-> [b \in BeanIDs |->
                                    IF b \in StoreBeans THEN CacheEntryOf(links[b])
                                    ELSE NoEntry],
                       ops |-> <<>>]
        /\ conc = [mu |-> [writer |-> Nil, readers |-> {}],
                   cache |-> [b \in StoreBeans |->
                                IF links[b] = Link(NoTask, NoTime) THEN Nil ELSE b],
                   heap |-> [o \in Objects |->
                                IF o \in StoreBeans
                                THEN [taskID |-> links[o].taskID,
                                      syncedAt |-> links[o].syncedAt]
                                ELSE [taskID |-> NoTask, syncedAt |-> NoTime]],
                   nobj |-> Cardinality(StoreBeans),
                   ops |-> <<>>,
                   taken |-> <<>>,
                   wanted |-> <<>>,
                   n |-> 0,
                   w |-> [w \in Workers |->
                            [pc |-> "idle", call |-> NoCall, ref |-> Nil,
                             got |-> NoAnswer, want |-> NoAnswer]]]

NextConc ==
    \/ \E w \in Workers : ConcBegin(w)
    \/ \E w \in Workers : ConcLock(w)
    \/ \E w \in Workers : ConcMutate(w)
    \/ \E w \in Workers : ConcRead(w)
    \/ \E w \in Workers : ConcFlush(w)
    \/ \E w \in Workers : ConcUnlock(w)
    \/ \E w \in Workers : ConcDeref(w)

SpecConc == InitConc /\ [][NextConc]_vars

(***************************************************************************)
(* The ClickUp client's retry policy (internal/clickup/client.go, described *)
(* in the repository's notes: "exponential backoff with jitter for rate     *)
(* limits (429, APP_002), transient network errors, and 5xx responses")     *)
(***************************************************************************)
\* The attempts one call is given.
MaxAttempts == 5

\* What one attempt of a call ends in: a transport error, or an HTTP status
\* with ClickUp's error code.
Response(net, status, code) == [net |-> net, status |-> status, code |-> code]

Responses ==
    {Response(TRUE, 0, ""), Response(FALSE, 200, ""), Response(FALSE, 404, ""),
     Response(FALSE, 429, ""), Response(FALSE, 500, ""),
     Response(FALSE, 400, "APP_002")}

Succeeded(r) == ~r.net /\ r.status >= 200 /\ r.status < 300

\* A failure that is retried whatever it is.
RetryableAlways(r) == ~Succeeded(r)

\* The classification: rate limit (429 or APP_002), transient network
\* error, 5xx.
Retryable(r) ==
    /\ ~Succeeded(r)
    /\ \/ r.net
       \/ r.status = 429
       \/ r.code = "APP_002"
       \/ r.status >= 500

clientFrame ==
    <<syncVars, provider, flushVars, storeVars, saveVars, conc, pure, timed, failed>>

\* One attempt: the request is sent and answered.
ClientSend ==
    /\ pc = "client"
    /\ client.pc = "ready"
    /\ \E r \in Responses :
        client' = [client EXCEPT !.pc = "answered", !.trace = Append(@, r)]
    /\ UNCHANGED clientFrame

\* The answer is classified: success and fatal failures are returned, a
\* retryable failure is retried while attempts are left.
ClientClassify ==
    /\ pc = "client"
    /\ client.pc = "answered"
    /\ LET r == client.trace[Len(client.trace)]
       IN  IF Retryable(r) /\ Len(client.trace) < MaxAttempts
           THEN client' = [client EXCEPT !.pc = "backoff"]
           ELSE client' = [client EXCEPT !.pc = "returned",
                                         !.err = ~Succeeded(r)]
    /\ UNCHANGED clientFrame

\* The backoff sleep is over.
ClientBackoff ==
    /\ pc = "client"
    /\ client.pc = "backoff"
    /\ client' = [client EXCEPT !.pc = "ready"]
    /\ UNCHANGED clientFrame

InitClient ==
    /\ pc = "client"
    /\ IdleSync
    /\ IdleFlush
    /\ NoStore
    /\ NoSave
    /\ provider = [cache |-> EmptyCache, ops |-> <<>>]
    /\ extData = EmptyCache
    /\ conc = <<>>
    /\ pure = <<>>
    /\ timed = <<>>
    /\ failed = {}
    /\ client = [pc |-> "ready", trace |-> <<>>, err |-> FALSE]

NextClient ==
    \/ ClientSend
    \/ ClientClassify
    \/ ClientBackoff

SpecClient == InitClient /\ [][NextClient]_vars

(***************************************************************************)
(* syncBean's CreateTask call through the retrying client                  *)
(***************************************************************************)
\* Whether an attempt's request can have been carried out by the service:
\* always on success; on a transport error or a 5xx it may or may not have
\* been; a 4xx is a refusal.
MayApply(r) ==
    IF Succeeded(r) THEN {TRUE}
    ELSE IF r.net \/ r.status >= 500 THEN {FALSE, TRUE}
    ELSE {FALSE}

\* One attempt of CreateTask: the request is sent; the service creates the
\* task when the request is carried out.
CreateSend ==
    /\ pc = "create"
    /\ client.pc = "ready"
    /\ \E r \in Responses : \E applied \in MayApply(r) :
        client' = [client EXCEPT
                      !.pc = "answered",
                      !.trace = Append(@, r),
                      !.tasks = IF applied THEN @ + 1 ELSE @]
    /\ UNCHANGED clientFrame

\* The answer is classified as for every call of the client.
CreateClassify ==
    /\ pc = "create"
    /\ client.pc = "answered"
    /\ LET r == client.trace[Len(client.trace)]
       IN  IF Retryable(r) /\ Len(client.trace) < MaxAttempts
           THEN client' = [client EXCEPT !.pc = "backoff"]
           ELSE client' = [client EXCEPT !.pc = "returned",
                                         !.err = ~Succeeded(r)]
    /\ UNCHANGED clientFrame

CreateBackoff ==
    /\ pc = "create"
    /\ client.pc = "backoff"
    /\ client' = [client EXCEPT !.pc = "ready"]
    /\ UNCHANGED clientFrame

\* syncBean, lines 295-313: CreateTask's error makes the action "error";
\* otherwise the task is linked and the action is "created". syncBean makes
\* the call once and has no other create.
CreateReturned ==
    /\ pc = "create"
    /\ client.pc = "returned"
    /\ client' = [client EXCEPT
                     !.pc = "done",
                     !.action = IF client.err THEN "error" ELSE "created"]
    /\ UNCHANGED clientFrame

InitCreate ==
    /\ pc = "create"
    /\ IdleSync
    /\ IdleFlush
    /\ NoStore
    /\ NoSave
    /\ provider = [cache |-> EmptyCache, ops |-> <<>>]
    /\ extData = EmptyCache
    /\ conc = <<>>
    /\ pure = <<>>
    /\ timed = <<>>
    /\ failed = {}
    /\ client = [pc |-> "ready", trace |-> <<>>, err |-> FALSE, tasks |-> 0,
                 action |-> ""]

NextCreate ==
    \/ CreateSend
    \/ CreateClassify
    \/ CreateBackoff
    \/ CreateReturned

SpecCreate == InitCreate /\ [][NextCreate]_vars

(***************************************************************************)
(* The run's context (cmd/sync.go) and the remote calls made under it      *)
(***************************************************************************)
\* The clock counts ticks up to MaxClock.
MaxClock == 4

\* The overall deadline asked of a run, in ticks after its start.
Deadline == 2

\* The items of a timed run; each item's worker makes one remote call on
\* whose failure the item's action is "error" (GetTask, UpdateTask or
\* CreateTask in syncBean).
TimedItems == {1, 2}

\* A context that is done from the deadline on.
BackgroundWithDeadline == [hasDeadline |-> TRUE, deadline |-> Deadline]

\* context.Background(): no deadline, never done.
Background == [hasDeadline |-> FALSE, deadline |-> 0]

\* ctx.Err() # nil at time now.
ctxDone(ctx, now) == ctx.hasDeadline /\ now >= ctx.deadline

\* An item's call: where it is, the attempts started, when the last attempt
\* started, when the call returned, and the item's action.
TimedItem(ipc, attempts, start, end, action) ==
    [pc |-> ipc, attempts |-> attempts, start |-> start, end |-> end,
     action |-> action]

timedFrame ==
    <<syncVars, provider, flushVars, storeVars, saveVars, conc, client, pure,
      failed>>

\* The call returns an error: the item's action is "error".
TimedFail(i) ==
    timed' = [timed EXCEPT !.items[i].pc = "done",
                           !.items[i].end = timed.now,
                           !.items[i].action = "error"]

\* Time passes while calls are in flight or backing off.
TimePasses ==
    /\ pc = "deadline"
    /\ timed.now < MaxClock
    /\ timed' = [timed EXCEPT !.now = @ + 1]
    /\ UNCHANGED timedFrame

\* The item's worker is started by SyncBeans, which never looks at ctx, and
\* makes its call with the run's ctx; a client given a done context returns
\* its error at once.
TimedCall(i) ==
    /\ pc = "deadline"
    /\ timed.items[i].pc = "todo"
    /\ IF ctxDone(timed.ctx, timed.now)
       THEN TimedFail(i)
       ELSE timed' = [timed EXCEPT !.items[i].pc = "calling",
                                   !.items[i].attempts = 1,
                                   !.items[i].start = timed.now]
    /\ UNCHANGED timedFrame

\* The attempt is answered: success, a failure that is returned, or a
\* retryable failure with attempts left.
TimedAnswer(i) ==
    /\ pc = "deadline"
    /\ timed.items[i].pc = "calling"
    /\ \E answer \in {"ok", "fatal", "retryable"} :
        IF ctxDone(timed.ctx, timed.now)
        THEN TimedFail(i)
        ELSE CASE answer = "ok" ->
                    timed' = [timed EXCEPT !.items[i].pc = "done",
                                           !.items[i].end = timed.now,
                                           !.items[i].action = "updated"]
               [] answer = "retryable" /\ timed.items[i].attempts < MaxAttempts ->
                    timed' = [timed EXCEPT !.items[i].pc = "backoff"]
               [] OTHER -> TimedFail(i)
    /\ UNCHANGED timedFrame

\* The backoff sleep is over: the next attempt starts, unless ctx is done.
TimedRetry(i) ==
    /\ pc = "deadline"
    /\ timed.items[i].pc = "backoff"
    /\ IF ctxDone(timed.ctx, timed.now)
       THEN TimedFail(i)
       ELSE timed' = [timed EXCEPT !.items[i].pc = "calling",
                                   !.items[i].attempts = @ + 1,
                                   !.items[i].start = timed.now]
    /\ UNCHANGED timedFrame

\* RunE, line 36: ctx := context.Background(), handed to SyncBeans at line
\* 126 and by it to every worker and every client call.
InitDeadline ==
    /\ pc = "deadline"
    /\ IdleSync
    /\ IdleFlush
    /\ NoStore
    /\ NoSave
    /\ provider = [cache |-> EmptyCache, ops |-> <<>>]
    /\ extData = EmptyCache
    /\ conc = <<>>
    /\ client = <<>>
    /\ pure = <<>>
    /\ failed = {}
    /\ timed = [now |-> 0, ctx |-> Background,
                items |-> [i \in TimedItems |-> TimedItem("todo", 0, 0, 0, "")]]

NextDeadline ==
    \/ TimePasses
    \/ \E i \in TimedItems : TimedCall(i)
    \/ \E i \in TimedItems : TimedAnswer(i)
    \/ \E i \in TimedItems : TimedRetry(i)

SpecDeadline == InitDeadline /\ [][NextDeadline]_vars

(***************************************************************************)
(* Pure functions of the Syncer (sync.go): syncTags' difference, due-date  *)
(* conversion, the create request's due date and buildUpdateRequest.       *)
(* Each is applied once to an input drawn from a bounded set.              *)
(***************************************************************************)
\* Epoch values are counted in hours (one unit is 3 600 000 ms): every
\* offset and every transition the model uses is a whole number of hours.
HoursPerDay == 24

\* Dates run over days 1..MaxDay of the epoch.
MaxDay == 3

\* Longest list of tags of a bean, and of a task.
MaxTags == 2

\* A pointer is nil or points to one value.
NilPtr == {}

Ptr(v) == {v}

Deref(p) == CHOOSE v \in p : TRUE

\* time.Local: a zone whose UTC offset is std before the instant at and dst
\* from it on (a fixed-offset zone has std = dst).
Zone(std, dst, at) == [std |-> std, dst |-> dst, at |-> at]

Fixed(offset) == Zone(offset, offset, 0)

\* Clocks go forward one hour at local midnight of day d.
SpringAtMidnight(std, d) == Zone(std, std + 1, d * HoursPerDay - std)

\* Clocks go back one hour from 01:00 to 00:00 of day d.
AutumnAtMidnight(std, d) == Zone(std + 1, std, d * HoursPerDay - std)

\* Clocks go forward one hour at 02:00 local of day d.
SpringAtTwo(std, d) == Zone(std, std + 1, d * HoursPerDay + 2 - std)

Zones ==
    {Fixed(-5), Fixed(0), Fixed(2), SpringAtTwo(-5, 2),
     SpringAtMidnight(-5, 2), SpringAtMidnight(2, 2), AutumnAtMidnight(-5, 2)}

\* Location.lookup: the offset in force at a UTC instant.
Offset(z, utc) == IF utc < z.at THEN z.std ELSE z.dst

\* time.Date(y, m, d, h, 0, 0, 0, time.Local): the wall-clock reading is
\* taken as UTC to guess the offset; when the instant it gives lies outside
\* the period of that offset, the offset in force at that instant is used.
Date(z, day, hour) ==
    LET unix == day * HoursPerDay + hour
        offset == Offset(z, unix)
    IN  IF offset = 0
        THEN unix
        ELSE LET utc == unix - offset
                 valid == (utc < z.at) = (unix < z.at)
             IN  unix - (IF valid THEN offset ELSE Offset(z, utc))

\* t.Local(): the wall-clock reading of an instant, in hours.
Local(z, t) == t + Offset(z, t)

LocalDay(z, t) == Local(z, t) \div HoursPerDay

IsLocalMidnight(z, t) == Local(z, t) % HoursPerDay = 0

toLocalDateMillis(z, t) == Date(z, LocalDay(z, t), 0)

\* A bean's due value: the string "YYYY-MM-DD" of a day, the empty string,
\* or a string that is not a date-only one.
DateString(day) == [kind |-> "date", day |-> day]

EmptyString == [kind |-> "empty", day |-> 0]

NotADate == [kind |-> "other", day |-> 0]

DueStrings == {DateString(d) : d \in 1..MaxDay} \cup {EmptyString, NotADate}

\* time.ParseInLocation("2006-01-02", s, time.Local).
parseBeanDueDate(z, s) ==
    IF s.kind = "date"
    THEN [err |-> FALSE, t |-> Date(z, s.day, 0)]
    ELSE [err |-> TRUE, t |-> 0]

\* The epoch value formatted as a date in the local zone.
FormatLocalDate(z, t) == DateString(LocalDay(z, t))

beanDueToMillis(z, due) ==
    IF due = NilPtr \/ Deref(due) = EmptyString
    THEN NilPtr
    ELSE LET p == parseBeanDueDate(z, Deref(due))
         IN  IF p.err THEN NilPtr ELSE Ptr(toLocalDateMillis(z, p.t))

\* ClickUp's due_date is a string of characters: the digits 0..9, and -1 for
\* any other character.
RECURSIVE Digits(_)
Digits(n) == IF n < 10 THEN <<n>> ELSE Append(Digits(n \div 10), n % 10)

\* fmt.Sscanf(s, "%d", &millis): the leading digits of the string.
RECURSIVE ScanDigits(_, _, _)
ScanDigits(s, i, acc) ==
    IF i > Len(s) \/ s[i] \notin 0..9
    THEN acc
    ELSE ScanDigits(s, i + 1, acc * 10 + s[i])

clickUpDueToMillis(s) ==
    IF s = NilPtr \/ Deref(s) = <<>>
    THEN NilPtr
    ELSE IF Deref(s)[1] \notin 0..9
         THEN NilPtr
         ELSE Ptr(ScanDigits(Deref(s), 1, 0))

int64PtrEqual(a, b) ==
    IF a = NilPtr /\ b = NilPtr
    THEN TRUE
    ELSE IF a = NilPtr \/ b = NilPtr THEN FALSE ELSE Deref(a) = Deref(b)

\* A comparison that never finds two values equal.
intPtrNeverEqual(a, b) == FALSE

intPtrEqual(a, b) ==
    IF a = NilPtr /\ b = NilPtr
    THEN TRUE
    ELSE IF a = NilPtr \/ b = NilPtr THEN FALSE ELSE Deref(a) = Deref(b)

\* The task's priority (its ID) against the wanted priority.
priorityEqual(current, target) ==
    IF current = NilPtr /\ target = NilPtr
    THEN TRUE
    ELSE IF current = NilPtr \/ target = NilPtr
         THEN FALSE
         ELSE Deref(current) = Deref(target)

\* The due date of the create request (syncBean): set when the bean has a
\* due value that parses.
CreateDue(z, due) ==
    IF due # NilPtr /\ ~parseBeanDueDate(z, Deref(due)).err
    THEN [DueDate |-> Ptr(toLocalDateMillis(z, parseBeanDueDate(z, Deref(due)).t)),
          DueDatetime |-> Ptr(FALSE)]
    ELSE [DueDate |-> NilPtr, DueDatetime |-> NilPtr]

\* buildUpdateRequest: a field is set when the task's value is not the
\* wanted one.
NoUpdate ==
    [Name |-> NilPtr, MarkdownDescription |-> NilPtr, Priority |-> NilPtr,
     Status |-> NilPtr, DueDate |-> NilPtr, DueDatetime |-> NilPtr,
     CustomItemID |-> NilPtr]

buildUpdateRequest(z, current, b) ==
    LET newDueMillis == beanDueToMillis(z, b.Due)
        currentDueMillis == clickUpDueToMillis(current.DueDate)
        dueDiffers == ~int64PtrEqual(currentDueMillis, newDueMillis)
    IN  [Name |-> IF current.Name # b.Title THEN Ptr(b.Title) ELSE NilPtr,
         MarkdownDescription |->
             IF current.Description # b.description
             THEN Ptr(b.description) ELSE NilPtr,
         Priority |->
             IF ~priorityEqual(current.Priority, b.priority)
             THEN b.priority ELSE NilPtr,
         Status |->
             IF b.clickUpStatus # "" /\ current.Status # b.clickUpStatus
             THEN Ptr(b.clickUpStatus) ELSE NilPtr,
         DueDate |->
             IF dueDiffers
             THEN IF newDueMillis # NilPtr THEN newDueMillis ELSE Ptr(0)
             ELSE NilPtr,
         DueDatetime |->
             IF dueDiffers /\ newDueMillis # NilPtr THEN Ptr(FALSE) ELSE NilPtr,
         CustomItemID |->
             IF ~intPtrEqual(current.CustomItemID, b.itemID)
             THEN b.itemID ELSE NilPtr]

\* UpdateTaskRequest.hasChanges: some field of the request is set.
hasChanges(update) == update # NoUpdate

\* syncTags: the bean's tags the task lacks are added, in the order of the
\* bean's list; the task's tags the bean lacks are removed, in the order of
\* the task's list. A call on a tag in failing fails.
InSeq(x, s) == \E i \in 1..Len(s) : s[i] = x

\* A call syncTags makes on the client.
TagCall(op, tag) == [op |-> op, tag |-> tag]

\* An add loop that gives up a tag whose space-level ensure call failed.
addMissingTagStrict(space, t, ensureFailed) ==
    IF space = "" THEN <<TagCall("AddTagToTask", t)>>
    ELSE IF ensureFailed THEN <<TagCall("EnsureSpaceTag", t)>>
    ELSE <<TagCall("EnsureSpaceTag", t), TagCall("AddTagToTask", t)>>

\* syncTags, lines 620-632: the calls made for one tag the task lacks.
\* EnsureSpaceTag's error is dropped and AddTagToTask is called next.
addMissingTag(space, t, ensureFailed) ==
    (IF space # "" THEN <<TagCall("EnsureSpaceTag", t)>> ELSE <<>>)
        \o <<TagCall("AddTagToTask", t)>>

RECURSIVE Concat(_)
Concat(ss) == IF ss = <<>> THEN <<>> ELSE Head(ss) \o Concat(Tail(ss))

\* ensureFailing: the tags whose EnsureSpaceTag call fails. log: the
\* client calls in the order they are made.
syncTags(space, tags, currentTags, failing, ensureFailing) ==
    LET adds == SelectSeq(tags, LAMBDA t : ~InSeq(t, currentTags))
        removes == SelectSeq(currentTags, LAMBDA t : ~InSeq(t, tags))
    IN  [ensures |-> IF space # "" THEN adds ELSE <<>>,
         adds |-> adds,
         removes |-> removes,
         log |->
             Concat([i \in 1..Len(adds) |->
                        addMissingTag(space, adds[i], adds[i] \in ensureFailing)])
               \o [i \in 1..Len(removes) |->
                        TagCall("RemoveTagFromTask", removes[i])],
         changed |->
             \/ \E i \in 1..Len(adds) : adds[i] \notin failing
             \/ \E i \in 1..Len(removes) : removes[i] \notin failing]

pureFrame ==
    <<syncVars, provider, flushVars, storeVars, saveVars, conc, client, timed,
      failed>>

TagNames == {"a", "b"}

TagLists == UNION {[1..n -> TagNames] : n \in 0..MaxTags}

\* An input of a function, not yet applied.
PureInput(fn, in) == [fn |-> fn, done |-> FALSE, out |-> <<>>, in |-> in]

BeanDues == {NilPtr} \cup {Ptr(s) : s \in DueStrings}

\* The due_date strings a task can come back with: none, empty, not a
\* number, local midnight of a day, and an instant that is not a midnight.
TaskDues(z) ==
    {NilPtr, Ptr(<<>>), Ptr(<<-1>>)}
        \cup {Ptr(Digits(Date(z, d, 0))) : d \in 1..2}
        \cup {Ptr(Digits(Date(z, 1, 4)))}

Tasks(z) ==
    {[Name |-> n, Description |-> d, Priority |-> p, Status |-> st,
      DueDate |-> due, CustomItemID |-> item] :
        n \in {"title", "old title"}, d \in {"text", "old text"},
        p \in {NilPtr, Ptr(1), Ptr(2)}, st \in {"open", "done"},
        due \in TaskDues(z), item \in {NilPtr, Ptr(1)}}

\* What the bean asks for: its title and due value, and the description,
\* priority, status and custom item ID syncBean derived from it.
Wanted ==
    {[Title |-> "title", description |-> "text", priority |-> p,
      clickUpStatus |-> st, Due |-> due, itemID |-> item] :
        p \in {NilPtr, Ptr(1)}, st \in {"", "open"},
        due \in {NilPtr, Ptr(EmptyString), Ptr(NotADate),
                  Ptr(DateString(1)), Ptr(DateString(2))},
        item \in {NilPtr, Ptr(1), Ptr(2)}}

\* syncTags is applied.
ApplySyncTags ==
    /\ pc = "pure"
    /\ pure.fn = "syncTags"
    /\ ~pure.done
    /\ pure' = [pure EXCEPT
            !.out = syncTags(pure.in.space, pure.in.tags,
                             pure.in.currentTags, pure.in.failing,
                             pure.in.ensureFailing),
            !.done = TRUE]
    /\ UNCHANGED pureFrame

\* A due string is parsed and converted, the value formatted back and
\* converted again; a timestamp is converted.
ApplyDueDate ==
    /\ pc = "pure"
    /\ pure.fn = "due"
    /\ ~pure.done
    /\ LET z == pure.in.zone
           millis == toLocalDateMillis(z, parseBeanDueDate(z, pure.in.due).t)
       IN  pure' = [pure EXCEPT
               !.out = [millis |-> millis,
                        back |-> FormatLocalDate(z, millis),
                        norm |-> toLocalDateMillis(z, pure.in.t)],
               !.done = TRUE]
    /\ UNCHANGED pureFrame

\* syncBean fills in the create request's due date.
ApplyCreate ==
    /\ pc = "pure"
    /\ pure.fn = "create"
    /\ ~pure.done
    /\ pure' = [pure EXCEPT !.out = CreateDue(pure.in.zone, pure.in.due),
                            !.done = TRUE]
    /\ UNCHANGED pureFrame

\* syncBean's update path: the request is built, and sent when it has
\* changes.
ApplyUpdate ==
    /\ pc = "pure"
    /\ pure.fn = "update"
    /\ ~pure.done
    /\ LET update == buildUpdateRequest(pure.in.zone, pure.in.current, pure.in.b)
       IN  pure' = [pure EXCEPT
               !.out = [update |-> update, called |-> hasChanges(update)],
               !.done = TRUE]
    /\ UNCHANGED pureFrame

\* A Go map is a function on its keys; a nil map has none.
NilMap == <<>>

HasKey(m, k) == k \in DOMAIN m

\* config.DefaultStatusMapping and config.DefaultPriorityMapping.
DefaultStatusMapping ==
    [k \in {"draft", "todo", "in-progress", "completed", "scrapped"} |->
        CASE k = "draft" -> "backlog"
          [] k = "todo" -> "to do"
          [] k = "in-progress" -> "in progress"
          [] k = "completed" -> "complete"
          [] k = "scrapped" -> "closed"]

DefaultPriorityMapping ==
    [k \in {"critical", "high", "normal", "low", "deferred"} |->
        CASE k = "critical" -> 1
          [] k = "high" -> 2
          [] k = "normal" -> 3
          [] k = "low" -> 4
          [] k = "deferred" -> 4]

\* A priority lookup that asks the built-in defaults before the configured
\* table.
getClickUpPriorityDefaultsFirst(cfg, beanPriority) ==
    IF beanPriority = ""
    THEN NilPtr
    ELSE IF HasKey(DefaultPriorityMapping, beanPriority)
         THEN Ptr(DefaultPriorityMapping[beanPriority])
         ELSE IF HasKey(cfg.PriorityMapping, beanPriority)
              THEN Ptr(cfg.PriorityMapping[beanPriority])
              ELSE NilPtr

getClickUpPriority(cfg, beanPriority) ==
    IF beanPriority = ""
    THEN NilPtr
    ELSE IF cfg.PriorityMapping # NilMap /\ HasKey(cfg.PriorityMapping, beanPriority)
         THEN Ptr(cfg.PriorityMapping[beanPriority])
         ELSE IF HasKey(DefaultPriorityMapping, beanPriority)
              THEN Ptr(DefaultPriorityMapping[beanPriority])
              ELSE NilPtr

getClickUpStatus(cfg, beanStatus) ==
    IF cfg.StatusMapping # NilMap /\ HasKey(cfg.StatusMapping, beanStatus)
    THEN cfg.StatusMapping[beanStatus]
    ELSE IF HasKey(DefaultStatusMapping, beanStatus)
         THEN DefaultStatusMapping[beanStatus]
         ELSE ""

getClickUpCustomItemID(cfg, beanType) ==
    IF beanType = ""
    THEN NilPtr
    ELSE IF cfg.TypeMapping # NilMap /\ HasKey(cfg.TypeMapping, beanType)
         THEN Ptr(cfg.TypeMapping[beanType])
         ELSE NilPtr

\* The mapped fields of the create request (syncBean, lines 269-277); the
\* request is encoded with omitempty, so an empty status and a nil priority
\* or custom item ID are left out.
CreateMapped(cfg, b) ==
    LET clickUpStatus == getClickUpStatus(cfg, b.Status)
    IN  [Status |-> IF clickUpStatus = "" THEN NilPtr ELSE Ptr(clickUpStatus),
         Priority |-> getClickUpPriority(cfg, b.Priority),
         CustomItemID |-> getClickUpCustomItemID(cfg, b.Type)]

\* Configured tables: none, one that overrides a default, one with keys the
\* defaults lack (the empty key among them).
StatusTables ==
    {NilMap, [k \in {"todo"} |-> "open"], [k \in {"review", ""} |-> "in review"]}

PriorityTables ==
    {NilMap, [k \in {"high"} |-> 1], [k \in {"someday", ""} |-> 4]}

\* applyDefaults keeps only standard bean types as keys.
TypeTables == {NilMap, [k \in {"bug"} |-> 1001]}

\* The mappings are applied to a bean's status, priority and type.
ApplyMapping ==
    /\ pc = "pure"
    /\ pure.fn = "mapping"
    /\ ~pure.done
    /\ pure' = [pure EXCEPT !.out = CreateMapped(pure.in.cfg, pure.in.b),
                            !.done = TRUE]
    /\ UNCHANGED pureFrame

\* A status mapping that knows no built-in defaults.
GetStatusMappingConfiguredOnly(configured) ==
    IF configured # NilPtr THEN Deref(configured) ELSE NilMap

\* Config.GetStatusMapping: the configured table when the configuration has
\* one (nil is NilPtr, an empty table is Ptr(NilMap)), else the defaults.
GetStatusMapping(configured) ==
    IF configured # NilPtr THEN Deref(configured) ELSE DefaultStatusMapping

checkResult(status, message, n) ==
    [Name |-> "Status mapping valid", Status |-> status,
     Message |-> [text |-> message, n |-> n]]

\* checkStatusMapping (cmd/check.go); statuses are the list's status names.
checkStatusMapping(configured, statuses) ==
    LET statusMapping == GetStatusMapping(configured)
        invalidMappings ==
            {k \in DOMAIN statusMapping : statusMapping[k] \notin statuses}
    IN  IF Cardinality(DOMAIN statusMapping) = 0
        THEN <<checkResult("warn", "No status mapping configured", 0)>>
        ELSE IF Cardinality(invalidMappings) > 0
             THEN <<checkResult("warn", "Unknown statuses",
                                Cardinality(invalidMappings))>>
             ELSE <<checkResult("pass", "mappings",
                                Cardinality(DOMAIN statusMapping))>>

\* The configurations of the tests and two more: no table, an empty one, a
\* valid one of three, one with two unknown statuses, one of one entry.
CheckTables ==
    {NilPtr, Ptr(NilMap),
     Ptr([k \in {"todo", "in-progress", "completed"} |->
            CASE k = "todo" -> "to do"
              [] k = "in-progress" -> "in progress"
              [] k = "completed" -> "complete"]),
     Ptr([k \in {"todo", "in-progress", "completed"} |->
            CASE k = "todo" -> "to do"
              [] k = "in-progress" -> "doing"
              [] k = "completed" -> "done"]),
     Ptr([k \in {"todo"} |-> "open"])}

ListStatuses ==
    SUBSET {"to do", "in progress", "complete", "backlog", "closed", "open"}

\* checkStatusMapping is applied.
ApplyCheck ==
    /\ pc = "pure"
    /\ pure.fn = "check"
    /\ ~pure.done
    /\ pure' = [pure EXCEPT
            !.out = checkStatusMapping(pure.in.configured, pure.in.statuses),
            !.done = TRUE]
    /\ UNCHANGED pureFrame

\* NewExtensionSyncProvider, lines 47-55: a bean's extension data gives a
\* cache entry when it has a task ID or a synced-at.
NewCacheEntry(taskID, syncedAt) ==
    IF taskID # NoTask \/ syncedAt # NoTime
    THEN [present |-> TRUE, taskID |-> taskID, syncedAt |-> syncedAt]
    ELSE NoEntry

\* A provider built from one bean's extension data.
ProviderOf(b, taskID, syncedAt) ==
    [cache |-> [EmptyCache EXCEPT ![b] = NewCacheEntry(taskID, syncedAt)],
     ops |-> <<>>]

\* FilterBeansNeedingSync, lines 683-696: whether the bean is kept.
FilterKeeps(p, bean, force) ==
    IF force THEN TRUE
    ELSE IF ExtGetSyncedAt(p, bean.ID) = NoTime THEN TRUE
    ELSE bean.UpdatedAt # NoTime /\ bean.UpdatedAt > ExtGetSyncedAt(p, bean.ID)

\* syncBean, lines 199-208: whether the bean's action is "skipped".
reportsSkipped(p, bean, force) ==
    /\ ExtGetTaskID(p, bean.ID) # NoTask
    /\ ~force
    /\ ~needsSync(p, bean)

\* The pre-filter and syncBean's skip decision are applied to one bean.
ApplyFilter ==
    /\ pc = "pure"
    /\ pure.fn = "filter"
    /\ ~pure.done
    /\ LET p == ProviderOf(pure.in.bean.ID, pure.in.taskID, pure.in.syncedAt)
       IN  pure' = [pure EXCEPT
                !.out = [kept |-> FilterKeeps(p, pure.in.bean, pure.in.force),
                         skipped |-> reportsSkipped(p, pure.in.bean, pure.in.force),
                         linked |-> ExtGetTaskID(p, pure.in.bean.ID) # NoTask],
                !.done = TRUE]
    /\ UNCHANGED pureFrame

\* A custom field's value as GetTask returns it (an `any`): absent, a JSON
\* string, or a JSON number.
NilAny == [type |-> "nil", v |-> <<>>]

StringAny(str) == [type |-> "string", v |-> str]

NumberAny(n) == [type |-> "float64", v |-> <<n>>]

\* A comparison that reads only JSON numbers: a string is never equal.
customFieldDateEqualNumbersOnly(current, target) ==
    current.type = "float64" /\ current.v[1] = target

\* customFieldDateEqual, lines 541-560.
customFieldDateEqual(current, target) ==
    CASE current.type = "nil" -> FALSE
      [] current.type = "string" ->
            /\ current.v # <<>>
            /\ current.v[1] \in 0..9
            /\ ScanDigits(current.v, 1, 0) = target
      [] OTHER -> current.v[1] = target

\* updateChangedCustomFields, lines 494-538: the configured fields whose
\* value on the task is not the bean's are written; a call on a field in
\* failing fails. cf says which fields are configured.
updateChangedCustomFields(z, cf, fields, b, failing) ==
    LET beanIDCall ==
            /\ cf.BeanID
            /\ (IF fields.BeanID.type = "string" THEN fields.BeanID.v ELSE <<>>) # b.ID
        createdAtCall ==
            /\ cf.CreatedAt
            /\ b.CreatedAt # NilPtr
            /\ ~customFieldDateEqual(fields.CreatedAt,
                                     toLocalDateMillis(z, Deref(b.CreatedAt)))
        made == (IF beanIDCall THEN {"BeanID"} ELSE {})
                    \cup (IF createdAtCall THEN {"CreatedAt"} ELSE {})
    IN  [calls |-> made,
         updated |-> made \ failing # {},
         fields |->
             [BeanID |-> IF "BeanID" \in made \ failing
                         THEN StringAny(b.ID) ELSE fields.BeanID,
              CreatedAt |-> IF "CreatedAt" \in made \ failing
                            THEN StringAny(Digits(toLocalDateMillis(z, Deref(b.CreatedAt))))
                            ELSE fields.CreatedAt]]

\* The task after an UpdateTask request: every field the request sets takes
\* the value sent; a due date of 0 without due_date_time removes the due
\* date.
TaskAfterUpdate(current, update) ==
    [Name |-> IF update.Name # NilPtr THEN Deref(update.Name) ELSE current.Name,
     Description |-> IF update.MarkdownDescription # NilPtr
                     THEN Deref(update.MarkdownDescription)
                     ELSE current.Description,
     Priority |-> IF update.Priority # NilPtr THEN update.Priority
                  ELSE current.Priority,
     Status |-> IF update.Status # NilPtr THEN Deref(update.Status)
                ELSE current.Status,
     DueDate |-> IF update.DueDate = NilPtr THEN current.DueDate
                 ELSE IF update.DueDatetime = NilPtr THEN NilPtr
                 ELSE Ptr(Digits(Deref(update.DueDate))),
     CustomItemID |-> IF update.CustomItemID # NilPtr THEN update.CustomItemID
                      ELSE current.CustomItemID]

\* The task's tags after syncTags: the tags removed are gone, the tags added
\* are there; a call on a tag in failing did nothing.
TagsAfterSync(tags, currentTags, failing) ==
    SelectSeq(currentTags, LAMBDA t : InSeq(t, tags) \/ t \in failing)
        \o SelectSeq(tags, LAMBDA t : ~InSeq(t, currentTags) /\ t \notin failing)

\* syncBean's update path, lines 231-259, with UpdateTask succeeding: the
\* calls made, the action, and the task as it is afterwards.
reconcile(z, space, cf, task, b, tagFailing, fieldFailing) ==
    LET update == buildUpdateRequest(z, task.core, b.core)
        custom == updateChangedCustomFields(z, cf, task.fields, b, fieldFailing)
        tags == syncTags(space, b.Tags, task.Tags, tagFailing, {})
    IN  [updateCalled |-> hasChanges(update),
         fieldCalls |-> custom.calls,
         tagCalls |-> tags.log,
         action |-> UpdateAction(hasChanges(update), custom.updated, tags.changed),
         task |-> [core |-> IF hasChanges(update)
                            THEN TaskAfterUpdate(task.core, update)
                            ELSE task.core,
                   fields |-> custom.fields,
                   Tags |-> TagsAfterSync(b.Tags, task.Tags, tagFailing)]]

\* The item is reconciled, and reconciled again against the task the first
\* reconciliation left. The second one's remote calls all succeed.
ApplyReconcileTwice ==
    /\ pc = "pure"
    /\ pure.fn = "twice"
    /\ ~pure.done
    /\ LET in == pure.in
           first == reconcile(in.zone, in.space, in.cf, in.task, in.b,
                              in.tagFailing, in.fieldFailing)
           second == reconcile(in.zone, in.space, in.cf, first.task, in.b, {}, {})
       IN  pure' = [pure EXCEPT !.out = [first |-> first, second |-> second],
                                !.done = TRUE]
    /\ UNCHANGED pureFrame

\* The custom field values a task comes back with.
FieldValues(z) ==
    {NilAny, StringAny(<<7>>), StringAny(<<8>>),
     StringAny(Digits(Date(z, 1, 0))), NumberAny(Date(z, 1, 0)),
     StringAny(Digits(Date(z, 1, 4)))}

InitPure ==
    /\ pc = "pure"
    /\ IdleSync
    /\ IdleFlush
    /\ NoStore
    /\ NoSave
    /\ provider = [cache |-> EmptyCache, ops |-> <<>>]
    /\ extData = EmptyCache
    /\ conc = <<>>
    /\ client = <<>>
    /\ timed = <<>>
    /\ failed = {}
    /\ \/ \E sp \in {"", "space"}, ts \in TagLists, cs \in TagLists,
             f \in SUBSET TagNames, ef \in SUBSET TagNames :
              pure = PureInput("syncTags",
                               [space |-> sp, tags |-> ts, currentTags |-> cs,
                                failing |-> f, ensureFailing |-> ef])
       \/ \E z \in Zones, d \in 1..MaxDay,
             t \in HoursPerDay..((MaxDay + 1) * HoursPerDay - 1) :
              pure = PureInput("due", [zone |-> z, due |-> DateString(d), t |-> t])
       \/ \E z \in Zones, due \in BeanDues :
              pure = PureInput("create", [zone |-> z, due |-> due])
       \/ \E z \in {Fixed(-5), SpringAtMidnight(-5, 2)} :
              \E x \in Tasks(z), w \in Wanted :
                  pure = PureInput("update", [zone |-> z, current |-> x, b |-> w])
       \/ \E sm \in StatusTables, pm \in PriorityTables, tm \in TypeTables,
             st \in {"", "todo", "review", "unknown"},
             pr \in {"", "high", "low", "someday", "unknown"},
             ty \in {"", "bug", "task"} :
              pure = PureInput("mapping",
                               [cfg |-> [StatusMapping |-> sm,
                                         PriorityMapping |-> pm,
                                         TypeMapping |-> tm],
                                b |-> [Status |-> st, Priority |-> pr, Type |-> ty]])
       \/ \E configured \in CheckTables, statuses \in ListStatuses :
              pure = PureInput("check",
                               [configured |-> configured, statuses |-> statuses])
       \/ \E id \in 1..MaxBeans, u \in NoTime..Now, t \in {NoTask, 1},
             at \in NoTime..Now, force \in BOOLEAN :
              pure = PureInput("filter",
                               [bean |-> [ID |-> id, UpdatedAt |-> u],
                                taskID |-> t, syncedAt |-> at, force |-> force])
       \/ \E z \in {Fixed(-5), SpringAtMidnight(-5, 2)} :
              \E x \in Tasks(z), w \in Wanted :
                  pure = PureInput("twice",
                      [zone |-> z, space |-> "space",
                       cf |-> [BeanID |-> FALSE, CreatedAt |-> FALSE],
                       task |-> [core |-> x,
                                 fields |-> [BeanID |-> NilAny, CreatedAt |-> NilAny],
                                 Tags |-> <<>>],
                       b |-> [core |-> w, ID |-> <<7>>, CreatedAt |-> NilPtr,
                              Tags |-> <<>>],
                       tagFailing |-> {}, fieldFailing |-> {}])
       \/ \E z \in {Fixed(-5), SpringAtMidnight(-5, 2)} :
              \E cfb \in BOOLEAN, cfc \in BOOLEAN,
                 fb \in {NilAny, StringAny(<<7>>), StringAny(<<8>>)},
                 fc \in FieldValues(z),
                 created \in {NilPtr, Ptr(Date(z, 1, 4)), Ptr(Date(z, 2, 1))},
                 ff \in SUBSET {"BeanID", "CreatedAt"} :
                  pure = PureInput("twice",
                      [zone |-> z, space |-> "space",
                       cf |-> [BeanID |-> cfb, CreatedAt |-> cfc],
                       task |-> [core |-> CHOOSE x \in Tasks(z) : TRUE,
                                 fields |-> [BeanID |-> fb, CreatedAt |-> fc],
                                 Tags |-> <<>>],
                       b |-> [core |-> CHOOSE w \in Wanted : TRUE, ID |-> <<7>>,
                              CreatedAt |-> created, Tags |-> <<>>],
                       tagFailing |-> {}, fieldFailing |-> ff])
       \/ \E sp \in {"", "space"}, ts \in TagLists, cs \in TagLists,
             tf \in SUBSET TagNames, fb \in {StringAny(<<7>>), StringAny(<<8>>)} :
                  pure = PureInput("twice",
                      [zone |-> Fixed(-5), space |-> sp,
                       cf |-> [BeanID |-> TRUE, CreatedAt |-> FALSE],
                       task |-> [core |-> CHOOSE x \in Tasks(Fixed(-5)) : TRUE,
                                 fields |-> [BeanID |-> fb, CreatedAt |-> NilAny],
                                 Tags |-> cs],
                       b |-> [core |-> CHOOSE w \in Wanted : TRUE, ID |-> <<7>>,
                              CreatedAt |-> NilPtr, Tags |-> ts],
                       tagFailing |-> tf, fieldFailing |-> {}])

NextPure ==
    \/ ApplySyncTags
    \/ ApplyDueDate
    \/ ApplyCreate
    \/ ApplyUpdate
    \/ ApplyMapping
    \/ ApplyCheck
    \/ ApplyFilter
    \/ ApplyReconcileTwice

SpecPure == InitPure /\ [][NextPure]_vars

(***************************************************************************)
(* Properties of a run (Spec)                                              *)
(***************************************************************************)
\* SyncBeans has returned.
Returned == pc \in {"returned", "flush", "done"}

\* The bean had a live link when the run began.
LinkedBefore(b) == cache0[b].present /\ cache0[b].taskID # NoTask

\* The bean had a live link when the run began, the link's synced-at is set
\* and the bean's updated-at is not after it.
FreshLinked(b) ==
    /\ LinkedBefore(b)
    /\ cache0[b].syncedAt # NoTime
    /\ BeanOf(b).UpdatedAt <= cache0[b].syncedAt

\* syncBean has returned for the bean.
Reconciled(b) == wpc[b] \in {"post", "done", "relationships", "related"}

\* C1, as stated: a bean with a live, non-stale link is skipped when Force is
\* false, and no remote write call at all (dependency add included) is issued
\* for it during the run.
C1_SkippedNoRemoteWrite ==
    \A b \in RunIDs :
        (FreshLinked(b) /\ ~opts.Force) =>
            /\ Reconciled(b) => wres[b].Action = "skipped"
            /\ \A c \in calls : c.bean # b

\* C1, amended: a bean with a live, non-stale link is skipped when Force is
\* false: syncBean goes from the staleness check straight to its return, the
\* result carries the linked task, the link is left as it was, and the only
\* remote write calls issued for the bean are the AddDependency calls of
\* pass 3.
C1_SkippedNoSyncBeanWrite ==
    \A b \in RunIDs :
        (FreshLinked(b) /\ ~opts.Force) =>
            /\ wpc[b] \in {"idle", "begin", "post", "done", "relationships", "related"}
            /\ Reconciled(b) =>
                  /\ wres[b].Action = "skipped"
                  /\ wres[b].TaskID = cache0[b].taskID
                  /\ wres[b].Error = ""
            /\ Returned => results[beanIndex(b)].Action = "skipped"
            /\ \A c \in calls : c.bean = b => c.kind = "AddDependency"
            /\ \A c \in calls : c.bean = b => (~opts.DryRun /\ ~opts.NoRelationships)
            /\ provider.cache[b] = cache0[b]

\* A run has returned in which a fresh bean was skipped while another bean
\* was written remotely, and pass 3 issued a dependency call for the fresh one.
C1_Witness ==
    /\ pc = "returned"
    /\ \E b \in RunIDs :
        /\ FreshLinked(b)
        /\ ~opts.Force
        /\ results[beanIndex(b)].Action = "skipped"
        /\ \E c \in calls : c.bean = b /\ c.kind = "AddDependency"
        /\ \E c \in calls : c.bean # b /\ c.kind = "CreateTask"

\* The CreateTask calls that succeeded for a bean.
CreatedFor(b) ==
    {c \in calls : c.kind = "CreateTask" /\ c.bean = b /\ c.task # NoTask}

\* C2: in a run that is not a preview, when GetTask reports a linked bean's
\* task as missing, the store holds no link for the bean when CreateTask is
\* called for it; when CreateTask succeeds, the store links the bean to the
\* new task and not the old one, one task only was created for it, the
\* action is "created", and a successful Flush persists the new link.
C2_ClearedBeforeCreate ==
    ~opts.DryRun =>
        \A b \in RunIDs :
            LinkedBefore(b) =>
                /\ wpc[b] \in {"create", "created"} =>
                      /\ ExtGetTaskID(provider, b) = NoTask
                      /\ ~provider.cache[b].present
                /\ Cardinality(CreatedFor(b)) <= 1
                /\ (CreatedFor(b) # {} /\ Reconciled(b)) =>
                      /\ wres[b].Action = "created"
                      /\ \A c \in CreatedFor(b) : c.task = wres[b].TaskID
                /\ wres[b].Action = "created" =>
                      /\ ExtGetTaskID(provider, b) = wres[b].TaskID
                      /\ ExtGetTaskID(provider, b) # cache0[b].taskID
                      /\ wres[b].TaskID \in remoteTasks
                /\ (wres[b].Action = "created" /\ pc = "done" /\ ~flushErr) =>
                      extData[b].taskID = wres[b].TaskID

\* A linked bean's task was missing, a new task was created and the new link
\* was persisted.
C2_Witness ==
    /\ pc = "done"
    /\ ~flushErr
    /\ \E b \in RunIDs :
        /\ LinkedBefore(b)
        /\ results[beanIndex(b)].Action = "created"
        /\ extData[b].taskID # cache0[b].taskID
        /\ extData[b].taskID \in remoteTasks

\* C3: when a dependent bean whose parent is in the run reaches task
\* creation, beanToTaskID holds its parent's task ID. A parent whose own
\* reconciliation ended in error is left out: it has no task to hold.
C3_ParentResolvedAtCreate ==
    \A b \in RunIDs :
        (/\ wpc[b] = "create"
         /\ ~opts.DryRun
         /\ BeanOf(b).Parent \in RunIDs
         /\ wres[BeanOf(b).Parent].Action # "error") =>
            beanToTaskID[BeanOf(b).Parent] # NoTask

C5_PreviewWritesNothing ==
    opts.DryRun =>
        /\ calls = {}
        /\ provider.cache = cache0
        /\ provider.ops = <<>>
        /\ flushPc = "idle"
        /\ extData = cache0

\* The actions a SyncResult can carry.
Actions ==
    {"created", "updated", "unchanged", "skipped", "would create", "would update",
     "error"}

\* The CreateTask calls that failed for a bean.
CreateFailedFor(b) ==
    {c \in calls : c.kind = "CreateTask" /\ c.bean = b /\ c.task = NoTask}

\* C6: a failed remote call for one bean gives that bean the action "error"
\* with the failure in its own result; when SyncBeans returns, every bean of
\* the run has been reconciled and has its own result, a bean whose calls
\* did not fail carries no error, and the command has no run-level error.
C6_ErrorsStayPerItem ==
    Returned =>
        /\ pc = "returned" => runErr = ""
        /\ \A i \in 1..N :
            /\ results[i].BeanID = beanList[i].ID
            /\ results[i].Action \in Actions
            /\ results[i].Action = "error" <=> results[i].Error # ""
            /\ results[i].Error = "creating task" <=> CreateFailedFor(beanList[i].ID) # {}
            /\ results[i].Error \in {"", "creating task", "updating task", "fetching task"}

\* SyncBeans has returned with one bean in error and another one created.
C6_Witness ==
    /\ pc = "returned"
    /\ \E i \in 1..N, j \in 1..N :
        /\ results[i].Action = "error"
        /\ results[j].Action = "created"
        /\ results[j].Error = ""

\* Every worker of every pass has returned.
PassesCompleted ==
    /\ Returned
    /\ \A b \in RunIDs : wpc[b] \in {"done", "related"}
    /\ \A i \in 1..N : results[i].Action # ""

\* C8: when Flush fails the sync command returns a run-level error; the
\* error exists only once all passes have completed, Flush itself begins
\* only then, and every task created in the run is still there.
C8_FlushFailureAfterPasses ==
    /\ (pc = "done" /\ flushErr) => runErr = "saving sync state"
    /\ runErr # "" => (pc = "done" /\ flushErr /\ PassesCompleted)
    /\ flushPc # "idle" => PassesCompleted
    /\ \A c \in calls : (c.kind = "CreateTask" /\ c.task # NoTask) => c.task \in remoteTasks

\* The command has returned the flush error after a task was created.
C8_Witness ==
    /\ pc = "done"
    /\ runErr = "saving sync state"
    /\ remoteTasks # {}
    /\ \E i \in 1..N : results[i].Action = "created"

(***************************************************************************)
(* Properties of the stores (SpecStore)                                    *)
(***************************************************************************)
\* The beans with a pending operation.
Touched(ops) == {ops[i].beanID : i \in 1..Len(ops)}

\* A bean's last pending operation.
LastOp(ops, b) ==
    ops[CHOOSE i \in 1..Len(ops) :
            /\ ops[i].beanID = b
            /\ \A j \in (i + 1)..Len(ops) : ops[j].beanID # b]

LastSet(ops) == {b \in Touched(ops) : LastOp(ops, b).set}

LastCleared(ops) == {b \in Touched(ops) : ~LastOp(ops, b).set}

Occurrences(seq, x) == Cardinality({i \in 1..Len(seq) : seq[i] = x})

\* C7, as stated: once Flush has returned, it has issued at most one
\* SetExtensionDataBatch call, holding the last operation of every bean whose
\* last pending operation is a set, and exactly one RemoveExtensionData call
\* for every bean whose last pending operation is a Clear.
C7_OneRemovePerCleared ==
    (flushPc = "done" /\ flushed0 # <<>>) =>
        /\ Len(batchCalls) <= 1
        /\ \A i \in 1..Len(batchCalls) :
              batchCalls[i] = {LastOp(flushed0, b) : b \in LastSet(flushed0)}
        /\ \A b \in BeanIDs :
              Occurrences(removeCalls, b) = IF b \in LastCleared(flushed0) THEN 1 ELSE 0

\* C7, amended: Flush issues at most one SetExtensionDataBatch call, holding
\* the last operation of every bean whose last pending operation is a set,
\* and at most one RemoveExtensionData call per bean, only for beans whose
\* last pending operation is a Clear; it returns at the first call that
\* fails, and when it returns no error the batch call was issued if there
\* was a set to write and every cleared bean got its one remove call.
C7_FlushDeduplicates ==
    /\ Len(batchCalls) <= 1
    /\ \A i \in 1..Len(batchCalls) :
          /\ batchCalls[i] = {LastOp(flushed0, b) : b \in LastSet(flushed0)}
          /\ batchCalls[i] # {}
    /\ \A b \in BeanIDs :
          Occurrences(removeCalls, b) <= IF b \in LastCleared(flushed0) THEN 1 ELSE 0
    /\ flushErr => flushPc = "done"
    /\ (flushPc = "done" /\ ~flushErr) =>
          /\ LastSet(flushed0) # {} => Len(batchCalls) = 1
          /\ \A b \in LastCleared(flushed0) : Occurrences(removeCalls, b) = 1

\* Flush has returned without error after writing one bean's last set, and
\* not its earlier one, and removing another bean.
C7_Witness ==
    /\ pc = "store"
    /\ flushPc = "done"
    /\ ~flushErr
    /\ Len(batchCalls) = 1
    /\ Len(removeCalls) = 1
    /\ Len(flushed0) > Cardinality(Touched(flushed0))

\* C9: from the same links and after the same calls, the file-backed Store
\* and the ExtensionSyncProvider answer GetTaskID and GetSyncedAt alike for
\* every bean.
C9_StoresAnswerAlike ==
    \A b \in StoreBeans :
        /\ StoreGetTaskID(fdata, b) = ExtGetTaskID(provider, b)
        /\ StoreGetSyncedAt(fdata, b) = ExtGetSyncedAt(provider, b)

\* Both stores have taken a set of a task ID and of a synced-at for one bean
\* and the Clear of another bean that was linked.
C9_Witness ==
    /\ pc = "store"
    /\ nOps >= 3
    /\ \E b \in StoreBeans, o \in StoreBeans :
        /\ StoreGetTaskID(fdata, b) = 7
        /\ StoreGetSyncedAt(fdata, b) = 5
        /\ extData[o].taskID # NoTask
        /\ extData[o].syncedAt # NoTime
        /\ fdata[o].state = "absent"
        /\ ExtGetSyncedAt(provider, o) = NoTime

(***************************************************************************)
(* Properties of Store.Save (SpecSave)                                     *)
(***************************************************************************)
\* C10: in every state Save can be stopped in, the state file holds the
\* complete contents it had when Save began or the complete new contents,
\* and never part of a document.
C10_SaveIsCrashAtomic ==
    /\ disk.final.exists => Complete(disk.final.data)
    /\ \/ disk.final = disk0
       \/ disk.final = File(saveData)

\* The process stopped in the middle of Save's writes, over an older state
\* file.
C10_Witness ==
    /\ pc = "crashed"
    /\ savePc = "write"
    /\ Len(disk.tmp.data) >= 1
    /\ Len(disk.tmp.data) < Len(saveData)
    /\ disk.final.exists
    /\ disk.final.data # saveData

\* C11: every mutation of the file-backed Store is on disk when the call
\* returns: a step that changes the store's data leaves the state file
\* holding that data.
C11_MutationsReachDisk ==
    [][fdata' # fdata => disk'.final = File(Marshal(fdata'))]_vars

(***************************************************************************)
(* Properties of concurrent callers (SpecConc)                             *)
(***************************************************************************)
\* No mutation is lost: whenever nobody holds the write lock, the cache and
\* the pending operations are those of the calls applied one after the other
\* in the order the lock was taken, and a Flush takes every pending operation.
ConcMutationsSequential ==
    /\ conc.mu.writer = Nil => ConcView = provider
    /\ conc.taken = conc.wanted

\* Every getter gives its caller the answer the sequential store gave while
\* the call held the lock.
ConcReadsSequential ==
    \A w \in Workers :
        (conc.w[w].pc = "idle" /\ IsRead(conc.w[w].call)) =>
            conc.w[w].got = conc.w[w].want

\* C12: with several workers calling the store concurrently every call takes
\* effect atomically: no mutation is lost, each bean's link is the result of
\* its calls in some sequential order, every mutation has a pending
\* operation the next Flush sees, and every getter answers as the
\* sequential store does.
C12_CallsAreAtomic ==
    /\ ConcMutationsSequential
    /\ ConcReadsSequential

(***************************************************************************)
(* Properties of the client's retry policy (SpecClient)                    *)
(***************************************************************************)
\* The failure classes that are retried, said once more from the answer's
\* fields.
IsRateLimit(r) == ~r.net /\ (r.status = 429 \/ r.code = "APP_002")

IsServerError(r) == ~r.net /\ r.status >= 500 /\ r.status < 600

IsOther4xx(r) ==
    ~r.net /\ r.status >= 400 /\ r.status < 500 /\ ~IsRateLimit(r)

\* C13: an attempt is followed by another one only when it failed with a
\* rate limit, a network error or a 5xx; any other 4xx failure ends the
\* call at once with an error, and a retryable failure is retried while
\* attempts are left.
C13_RetriesOnlyRetryable ==
    LET n == Len(client.trace)
    IN  /\ \A i \in 1..(n - 1) :
              \/ client.trace[i].net
              \/ IsRateLimit(client.trace[i])
              \/ IsServerError(client.trace[i])
        /\ \A i \in 1..n :
              IsOther4xx(client.trace[i]) =>
                  /\ i = n
                  /\ client.pc \in {"answered", "returned"}
                  /\ client.pc = "returned" => client.err
        /\ (client.pc = "returned" /\ n < MaxAttempts) =>
              \/ Succeeded(client.trace[n])
              \/ IsOther4xx(client.trace[n])

\* A call was retried after a 5xx and after a rate limit, and was ended by a
\* 404.
C13_Witness ==
    /\ client.pc = "returned"
    /\ client.err
    /\ Len(client.trace) = 3
    /\ client.trace[1].status = 500
    /\ client.trace[2].status = 429
    /\ client.trace[3].status = 404

\* The task the run reports for a bean.
TaskOf(b) == wres[b].TaskID

\* The dependency calls made so far: calling bean, task, depends-on task.
DependencyEdges ==
    {<<c.bean, c.task, c.arg>> : c \in {x \in calls : x.kind = "AddDependency"}}

CountedKinds ==
    {"UpdateTask", "SetCustomFieldValue", "AddTagToTask", "RemoveTagFromTask"}

\* C22: a step in which a tag add or remove, a custom-field set or a
\* dependency call fails leaves the run going and without error; a failed
\* dependency call changes no result, and a failed tag or custom-field call
\* leaves its bean without error, with action "created" when its task was
\* created in this run, else "updated" when one of its counted calls
\* succeeded, else "unchanged".
C22_BestEffortFailuresStayLocal ==
    [][\A c \in failed' \ failed :
          /\ runErr' = runErr
          /\ pc' = pc
          /\ IF c.kind = "AddDependency"
             THEN wres' = wres /\ results' = results
             ELSE LET res == wres'[c.bean]
                      created == \E d \in calls' :
                                    /\ d.kind = "CreateTask"
                                    /\ d.bean = c.bean
                                    /\ d.task # NoTask
                      succeeded == \E d \in calls' \ failed' :
                                      d.bean = c.bean /\ d.kind \in CountedKinds
                  IN  /\ res.Error = ""
                      /\ res.Action = IF created THEN "created"
                                      ELSE IF succeeded THEN "updated"
                                      ELSE "unchanged"]_vars

\* A run has returned in which a tag call of bean 1 failed while its other
\* tag call alone made the action "updated", and a dependency call failed.
C22_Witness ==
    /\ Returned
    /\ runErr = ""
    /\ \E c \in failed : c.bean = 1 /\ c.kind = "AddTagToTask"
    /\ \A c \in calls : c.bean = 1 => c.kind # "UpdateTask"
    /\ wres[1].Action = "updated"
    /\ \E c \in failed : c.kind = "AddDependency"

\* The bean's syncBean worker has been started; it has returned, its result
\* stored.
WorkerStarted(b) == wpc[b] # "idle"

WorkerFinished(b) ==
    /\ Len(results) = N
    /\ results[beanIndex(b)].BeanID = b
    /\ wpc[b] \in {"done", "relationships", "related"}

\* The bean's pass 3 worker has been started.
RelationshipsStarted(b) == wpc[b] \in {"relationships", "related"}

\* C24: no dependent bean's reconciliation starts before every root bean's
\* has finished, and no pass 3 worker starts before every bean's
\* reconciliation, the dependents' included, has finished.
C24_PassesAreLayered ==
    /\ \A d \in Dependents :
          WorkerStarted(d) => \A r \in Roots : WorkerFinished(r)
    /\ \A b \in RunIDs :
          RelationshipsStarted(b) => \A d \in RunIDs : WorkerFinished(d)

\* Pass 3 is under way in a run of two roots and a dependent bean: one
\* relationship worker has returned, another has not.
C24_Witness ==
    /\ pc = "pass3"
    /\ Cardinality(Roots) = 2
    /\ Cardinality(Dependents) = 1
    /\ \E b \in RunIDs : wpc[b] = "related"
    /\ \E b \in RunIDs : wpc[b] = "relationships"

\* C25: every access of beanToTaskID that a worker makes during a pass is
\* made with mu held, so that no worker is about to access the map outside mu
\* while another worker of the pass is about to write it.
C25_MapAccessesUnderMutex ==
    Running =>
        \A b \in RunIDs, o \in RunIDs :
            b # o => ~(WritePending(b) /\ UnguardedAccessPending(o))

\* A step that calls syncProvider.Flush().
FlushCalled == flushPc = "idle" /\ flushPc' # "idle"

\* Every worker of every pass has returned.
PassesFinished ==
    /\ pc \in {"returned", "flush"}
    /\ \A b \in RunIDs : wpc[b] \in {"done", "related"}

\* C26: a non-preview run calls Flush exactly once, after all passes have
\* finished: Flush is called only by a non-preview run whose workers have
\* all returned, it is never called a second time, and the command does not
\* end without it; a preview run never calls Flush.
C26_FlushOnceAfterPasses ==
    [][/\ FlushCalled => ~opts.DryRun /\ PassesFinished
       /\ flushPc # "idle" => flushPc' # "idle"
       /\ pc' = "done" =>
            flushPc' = IF opts.DryRun THEN "idle" ELSE "done"]_vars

C26_Witness ==
    /\ pc = "done"
    /\ ~opts.DryRun
    /\ flushPc = "done"
    /\ Len(batchCalls) = 1
    /\ \E b \in RunIDs : results[beanIndex(b)].Action = "created"

\* The step in which bean b's worker leaves the update path of syncBean
\* (lines 210-260) with its result: GetTask failed or answered in a preview
\* run, or the update ran. A "not found" answer leaves for the create path.
UpdatePathEnds(b) ==
    /\ wpc[b] \in {"getTask", "update"}
    /\ wpc'[b] = "post"

\* The step sets the link's synced-at to the current time.
SyncedAtSet(b) ==
    /\ provider'.cache[b].syncedAt = Now
    /\ provider.cache[b].syncedAt # Now

\* The step leaves b's link as it was before the run, nothing pending.
LinkUntouched(b) ==
    /\ provider'.cache[b] = cache0[b]
    /\ \A i \in 1..Len(provider'.ops) : provider'.ops[i].beanID # b

\* On the update path an error is a failed GetTask or a failed UpdateTask:
\* the action is "error" and the link is untouched.
ErrorLeavesLink(b) ==
    wres'[b].Error # "" => wres'[b].Action = "error" /\ LinkUntouched(b)

\* C28 as stated: on the update path synced-at is set exactly when GetTask
\* succeeded and UpdateTask, where needed, succeeded, and an error leaves
\* the link and synced-at unchanged.
C28_SyncedAtIffNoError ==
    [][\A b \in RunIDs :
          UpdatePathEnds(b) =>
              /\ SyncedAtSet(b) <=> wres'[b].Error = ""
              /\ ErrorLeavesLink(b)]_vars

\* C28, amended: in a non-preview run synced-at is set exactly when GetTask
\* succeeded and UpdateTask, where needed, succeeded; a preview run answers
\* "would update" and leaves the link and synced-at unchanged; an error
\* leaves them unchanged in both.
C28_SyncedAtIffUpdateRan ==
    [][\A b \in RunIDs :
          UpdatePathEnds(b) =>
              /\ SyncedAtSet(b) <=> (~opts.DryRun /\ wres'[b].Error = "")
              /\ opts.DryRun /\ wres'[b].Error = "" =>
                    wres'[b].Action = "would update" /\ LinkUntouched(b)
              /\ ErrorLeavesLink(b)]_vars

\* One bean's UpdateTask failed and its link is as before; another bean was
\* updated and its synced-at is now.
C28_Witness ==
    \E b \in RunIDs, o \in RunIDs :
        /\ wpc[b] = "post"
        /\ wres[b].Error = "updating task"
        /\ provider.cache[b] = cache0[b]
        /\ wpc[o] = "post"
        /\ wres[o].Action = "updated"
        /\ LinkedBefore(o)
        /\ provider.cache[o].syncedAt = Now

\* The results syncBean has returned so far: the workers' results waiting to
\* be stored, and the stored ones.
ReturnedResults ==
    {wres[b] : b \in {x \in RunIDs : wpc[x] = "post"}}
        \cup {results[i] : i \in {k \in 1..Len(results) : results[k].BeanID # NoBean}}

\* C29: every SyncResult has one of the seven actions; a preview run gives
\* none of created, updated, unchanged, and a non-preview run gives none of
\* would create, would update.
C29_ActionVocabulary ==
    \A res \in ReturnedResults :
        /\ res.Action \in Actions
        /\ opts.DryRun => res.Action \notin {"created", "updated", "unchanged"}
        /\ ~opts.DryRun => res.Action \notin {"would create", "would update"}

\* A preview run returned with a "would update" and a "would create".
C29_Witness ==
    /\ pc = "returned"
    /\ opts.DryRun
    /\ \E i, j \in 1..Len(results) :
        /\ results[i].Action = "would update"
        /\ results[j].Action = "would create"

\* C30: the run honours an overall deadline: no retry of an item's call
\* starts once the deadline has expired, and an item whose call was in
\* flight when the deadline expired ends with the action "error".
C30_DeadlineHonoured ==
    pc = "deadline" =>
        \A i \in TimedItems :
            LET it == timed.items[i]
            IN  /\ it.attempts > 1 => it.start < Deadline
                /\ it.pc = "done" /\ it.attempts > 0 /\ it.start < Deadline
                       /\ it.end >= Deadline
                     => it.action = "error"

\* A pass has just ended: the join is passed and no worker of the next pass
\* has taken a step.
PassEnded ==
    \/ pc = "pass2" /\ \A b \in Dependents : wpc[b] = "begin"
    \/ pc = "pass3" /\ \A b \in RunIDs : wpc[b] = "relationships"
    \/ pc = "returned"

\* The tasks whose link the run cleared on a "not found" answer.
ClearedTasks ==
    {cache0[b].taskID :
        b \in {x \in RunIDs : /\ LinkedBefore(x)
                              /\ ExtGetTaskID(provider, x) # cache0[x].taskID}}

\* No create request names as parent, and no dependency call names as an
\* endpoint, a task whose link was cleared.
ClearedTaskUnused ==
    \A c \in calls :
        /\ c.kind = "CreateTask" => c.arg \notin ClearedTasks
        /\ c.kind = "AddDependency" =>
              c.task \notin ClearedTasks /\ c.arg \notin ClearedTasks

\* C31: at the end of each pass beanToTaskID holds, for every item of the
\* run, the task of the item's live link and no entry when there is no live
\* link; and a task whose link was cleared because it is missing is never
\* used as the parent of a create request or as an endpoint of a dependency.
C31_MapMirrorsLinks ==
    /\ PassEnded =>
          \A b \in RunIDs : beanToTaskID[b] = ExtGetTaskID(provider, b)
    /\ ClearedTaskUnused

\* C32: at most one remote task is created for an item in a run, also when
\* the create call fails transiently and the client tries it again.
C32_AtMostOneTaskPerItem ==
    pc = "create" => client.tasks <= 1

\* The beans whose last operation a failed Flush did not write: after a
\* failed batch the set operations and every removal, after a failed removal
\* the removals not yet made.
UnwrittenBeans ==
    IF ~flushErr THEN {}
    ELSE IF removeCalls = <<>>
    THEN {op.beanID : op \in flushSetOps} \cup flushRemoveIDs
    ELSE flushRemoveIDs

\* A Flush that made remote calls returns.
FlushReturns == flushPc \in {"batch", "remove"} /\ flushPc' = "done"

\* C34: when Flush returns an error the operations it did not write are
\* still pending, so that a later Flush writes them; when it returns nil
\* nothing it took is pending, and a Flush begun with nothing pending makes
\* no remote call.
C34_FailedFlushKeepsPending ==
    [][/\ FlushReturns =>
            \A b \in UnwrittenBeans' :
                \E i \in 1..Len(provider'.ops) : provider'.ops[i].beanID = b
       /\ flushPc \in {"idle", "done"} /\ provider.ops = <<>> =>
            flushPc' \in {"idle", "done"}]_vars

\* The items whose worker closure of pass 1 or pass 2 has ended, and with it
\* the closure's one call of reportProgress.
Reported == {b \in RunIDs : wpc[b] \in {"done", "relationships", "related"}}

\* C36: with a progress callback set, the callback has been invoked once for
\* each item whose worker has finished, the count handed to it being the
\* number of items finished so far (so the counts are 1, 2, ... with none
\* repeated or skipped), and when SyncBeans has returned the count has
\* reached total, the number of input items; without a callback nothing is
\* counted.
C36_ProgressCountsEachItemOnce ==
    IF opts.OnProgress
    THEN /\ completed = Cardinality(Reported)
         /\ completed <= total
         /\ Returned => completed = total /\ total = Cardinality(RunIDs)
    ELSE completed = 0

C36_Witness ==
    /\ Returned
    /\ opts.OnProgress
    /\ total >= 2
    /\ completed = total
    /\ \E b \in RunIDs : wres[b].Action = "error"

\* C37: when every remote call returns, SyncBeans terminates: the workers of
\* each pass finish, the joins are passed and the result list is returned.
C37_SyncBeansTerminates == <>Returned

\* The same for the runs in which the Go runtime does not stop the process.
C37_TerminatesUnlessCrashed == <>(Returned \/ pc = "crashed")

\* The items whose link the run cleared on a "not found" answer.
ClearedBeans ==
    {x \in RunIDs : /\ LinkedBefore(x)
                    /\ ExtGetTaskID(provider, x) # cache0[x].taskID}

\* C38: when SyncBeans has returned, every result with a task ID and an
\* action other than "error" names the task the store links its item to;
\* and a "would create" result, or the result of an item whose link was
\* cleared, does not carry the task ID of the missing task.
C38_ResultNamesLiveLink ==
    pc = "returned" =>
        \A i \in 1..Len(results) :
            LET res == results[i] IN
            res.BeanID # NoBean =>
                /\ (res.TaskID # NoTask /\ res.Action # "error") =>
                       res.TaskID = ExtGetTaskID(provider, res.BeanID)
                /\ res.Action = "would create" => res.TaskID \notin ClearedTasks
                /\ res.BeanID \in ClearedBeans =>
                       res.TaskID # cache0[res.BeanID].taskID

(***************************************************************************)
(* Properties of the pure functions (SpecPure)                             *)
(***************************************************************************)
Applied(fn) == pc = "pure" /\ pure.fn = fn /\ pure.done

Elems(s) == {s[i] : i \in 1..Len(s)}

NoRepeats(s) == \A i, j \in 1..Len(s) : s[i] = s[j] => i = j

\* C16: syncTags issues an add call for exactly the tags the bean has and
\* the task lacks and a remove call for exactly the tags the task has and
\* the bean lacks, each tag at most once however the two lists are ordered
\* or repeat a tag, no tag both added and removed; changed is true exactly
\* when one of those calls succeeded.
C16_TagCallsAreSetDifference ==
    Applied("syncTags") =>
        LET desired == Elems(pure.in.tags)
            current == Elems(pure.in.currentTags)
            out == pure.out
        IN  /\ Elems(out.adds) = desired \ current
            /\ Elems(out.removes) = current \ desired
            /\ NoRepeats(out.adds)
            /\ NoRepeats(out.removes)
            /\ Elems(out.adds) \cap Elems(out.removes) = {}
            /\ out.changed =
                  ((Elems(out.adds) \cup Elems(out.removes)) \ pure.in.failing # {})

\* The epoch value a due_date string denotes, as a pointer: nil when the
\* string is absent or is not the decimal form of a value.
Denoted(s) ==
    IF s = NilPtr
    THEN NilPtr
    ELSE {n \in 0..((MaxDay + 2) * HoursPerDay) : Digits(n) = Deref(s)}

\* The task already has the wanted value in all six fields.
SameInAllSix(z, current, b) ==
    /\ current.Name = b.Title
    /\ current.Description = b.description
    /\ current.Priority = b.priority
    /\ current.Status = b.clickUpStatus
    /\ Denoted(current.DueDate) = beanDueToMillis(z, b.Due)
    /\ current.CustomItemID = b.itemID

\* C17: buildUpdateRequest sets a field among name, description, priority,
\* status, due date and custom item type only when the task's value differs
\* from the wanted one (the task's due date string read as the number it
\* denotes); when the task has the wanted value in all six, the update is
\* empty and UpdateTask is not called.
C17_UpdateOnlyWhatDiffers ==
    Applied("update") =>
        LET z == pure.in.zone
            current == pure.in.current
            b == pure.in.b
            update == pure.out.update
        IN  /\ update.Name # NilPtr => current.Name # b.Title
            /\ update.MarkdownDescription # NilPtr =>
                  current.Description # b.description
            /\ update.Priority # NilPtr => current.Priority # b.priority
            /\ update.Status # NilPtr => current.Status # b.clickUpStatus
            /\ update.DueDate # NilPtr =>
                  Denoted(current.DueDate) # beanDueToMillis(z, b.Due)
            /\ update.CustomItemID # NilPtr => current.CustomItemID # b.itemID
            /\ SameInAllSix(z, current, b) =>
                  update = NoUpdate /\ ~pure.out.called

\* A task whose due date came back as a numeric string has the wanted value
\* in all six fields, and no update was sent.
C17_Witness ==
    /\ Applied("update")
    /\ pure.in.b.Due = Ptr(DateString(2))
    /\ pure.in.b.priority # NilPtr
    /\ pure.in.b.itemID # NilPtr
    /\ pure.in.current.DueDate # NilPtr
    /\ Len(Deref(pure.in.current.DueDate)) = 2
    /\ SameInAllSix(pure.in.zone, pure.in.current, pure.in.b)
    /\ pure.out.update = NoUpdate
    /\ ~pure.out.called

\* C18: in every time zone toLocalDateMillis gives an instant that is
\* already local midnight back unchanged, and a date-only string parsed by
\* parseBeanDueDate, converted to an epoch value and formatted back as a
\* local date gives the original string.
C18_DueDateIdempotentAndLossless ==
    Applied("due") =>
        /\ IsLocalMidnight(pure.in.zone, pure.in.t) => pure.out.norm = pure.in.t
        /\ pure.out.back = pure.in.due

\* C19: the create request carries a due date exactly when the bean has a
\* due value that is a date-only string; the value is the instant at which
\* the local clock reads midnight of that date, with DueDatetime false; a
\* bean without such a due value sends neither field.
C19_CreateDueIsLocalMidnight ==
    Applied("create") =>
        LET z == pure.in.zone
            due == pure.in.due
            req == pure.out
            dated == due # NilPtr /\ Deref(due).kind = "date"
        IN  /\ (req.DueDate # NilPtr) = dated
            /\ dated =>
                  /\ Local(z, Deref(req.DueDate)) = Deref(due).day * HoursPerDay
                  /\ req.DueDatetime = Ptr(FALSE)
            /\ ~dated => req.DueDatetime = NilPtr

\* What a table lookup with fallback gives: the configured table's entry,
\* else the built-in one, else nothing.
Lookup(configured, builtin, key) ==
    IF key \in DOMAIN configured
    THEN {configured[key]}
    ELSE IF key \in DOMAIN builtin THEN {builtin[key]} ELSE {}

\* C21: the status, priority and type of a bean are each looked up first in
\* the configured table, then in the built-in defaults (there are none for
\* types), and are absent when neither has the key; a bean without priority
\* or type has none to look up; an absent value is left out of the create
\* request.
C21_MappingFallsBackToDefaults ==
    Applied("mapping") =>
        LET cfg == pure.in.cfg
            b == pure.in.b
        IN  /\ pure.out.Status =
                  Lookup(cfg.StatusMapping, DefaultStatusMapping, b.Status)
            /\ pure.out.Priority =
                  IF b.Priority = "" THEN {}
                  ELSE Lookup(cfg.PriorityMapping, DefaultPriorityMapping, b.Priority)
            /\ pure.out.CustomItemID =
                  IF b.Type = "" THEN {}
                  ELSE Lookup(cfg.TypeMapping, NilMap, b.Type)

\* A configured priority overrode the built-in one, the status came from
\* the defaults, and the type, which has no mapping, was left out.
C21_Witness ==
    /\ Applied("mapping")
    /\ pure.in.b = [Status |-> "todo", Priority |-> "high", Type |-> "task"]
    /\ pure.in.cfg.StatusMapping = NilMap
    /\ pure.in.cfg.PriorityMapping # NilMap
    /\ pure.out = [Status |-> {"to do"}, Priority |-> {1}, CustomItemID |-> {}]

\* The status mapping in effect for a configuration.
EffectiveStatuses(configured) ==
    IF configured = NilPtr
    THEN {DefaultStatusMapping[k] : k \in DOMAIN DefaultStatusMapping}
    ELSE {Deref(configured)[k] : k \in DOMAIN Deref(configured)}

EffectiveCount(configured) ==
    IF configured = NilPtr
    THEN Cardinality(DOMAIN DefaultStatusMapping)
    ELSE Cardinality(DOMAIN Deref(configured))

LogAt(log, op, t) == {i \in 1..Len(log) : log[i] = TagCall(op, t)}

\* C27: with the space ID known, every AddTagToTask call of syncTags has an
\* EnsureSpaceTag call for the same tag right before it, and every tag the
\* bean has and the task lacks gets its AddTagToTask call, the tags whose
\* EnsureSpaceTag call failed included.
C27_EnsureBeforeAdd ==
    Applied("syncTags") /\ pure.in.space # "" =>
        LET log == pure.out.log
        IN  /\ \A i \in 1..Len(log) :
                  log[i].op = "AddTagToTask" =>
                      i > 1 /\ log[i - 1] = TagCall("EnsureSpaceTag", log[i].tag)
            /\ \A t \in Elems(pure.in.tags) \ Elems(pure.in.currentTags) :
                  /\ LogAt(log, "AddTagToTask", t) # {}
                  /\ Cardinality(LogAt(log, "AddTagToTask", t))
                        = Cardinality(LogAt(log, "EnsureSpaceTag", t))

\* Two tags are added, the ensure call of the first one fails.
C27_Witness ==
    /\ Applied("syncTags")
    /\ pure.in.space # ""
    /\ Len(pure.out.adds) = 2
    /\ pure.out.adds[1] # pure.out.adds[2]
    /\ pure.out.adds[1] \in pure.in.ensureFailing
    /\ pure.out.adds[2] \notin pure.in.ensureFailing
    /\ Len(pure.out.log) = 4

\* C33: the pre-filter keeps a bean exactly when syncBean would not report
\* "skipped" for it, and keeps every bean that has no live link.
C33_FilterAgreesWithSyncBean ==
    Applied("filter") =>
        /\ pure.out.kept <=> ~pure.out.skipped
        /\ ~pure.out.linked => pure.out.kept

\* The reconciliation issued no UpdateTask, tag or custom-field call and
\* reported "unchanged".
Quiet(r) ==
    /\ ~r.updateCalled
    /\ r.fieldCalls = {}
    /\ r.tagCalls = <<>>
    /\ r.action = "unchanged"

====
